---------------------------- MODULE Spec2Model ----------------------------
(***************************************************************************)
(* BIP32 hierarchical deterministic wallet: the extended-key data model,   *)
(* its 78-byte codec, child key derivation, neutering and the recovery of  *)
(* a parent private key, as implemented in btclib/bip32.py.                *)
(*                                                                         *)
(* Byte strings are sequences of 0..255 with the lengths of the code.      *)
(* The curve and the hash functions are collaborators of bip32.py: they    *)
(* are modelled by a curve of the secp256k1 family (y^2 = x^3 + 7) over a  *)
(* small prime field, and by small mixing functions that keep the width of *)
(* their outputs (20 and 64 bytes).                                        *)
(*                                                                         *)
(* A Python int that may exceed the range of the model checker's integers  *)
(* is kept in a form that is exact for every use the code makes of it:     *)
(*   - the 32-bit index is a pair <<hi, lo>> of 16-bit limbs, standing for *)
(*     hi * 65536 + lo (hi < 0 or hi > 65535 are the values out of range); *)
(*   - int.from_bytes of a 32-byte string is compared bytewise, or reduced *)
(*     modulo the curve order where the code reduces it.                   *)
(***************************************************************************)
EXTENDS Integers, Sequences, FiniteSets, TLC

(***************************************************************************)
(* Bytes                                                                   *)
(***************************************************************************)
zeros(len) == [i \in 1..len |-> 0]

\* the byte of weight 256^k of v, for 0 <= v < 2^31
byte_at(v, k) ==
    IF k = 0 THEN v % 256
    ELSE IF k = 1 THEN (v \div 256) % 256
    ELSE IF k = 2 THEN (v \div 65536) % 256
    ELSE IF k = 3 THEN (v \div 16777216) % 256
    ELSE 0

\* int.to_bytes(len, byteorder="big", signed=False) of a value that fits
to_bytes(v, len) == [i \in 1..len |-> byte_at(v, len - i)]

\* whether int.to_bytes(len, "big") raises OverflowError
to_bytes_overflows(v, len) ==
    \/ v < 0
    \/ len = 1 /\ v > 255
    \/ len = 2 /\ v > 65535
    \/ len = 3 /\ v > 16777215

\* b[from..to] with Python's clipping of a slice to the length of b
slice(b, from, to) == SubSeq(b, from, IF to > Len(b) THEN Len(b) ELSE to)

RECURSIVE int_prefix_mod(_, _, _)
\* int.from_bytes(b[:k], "big") % m
int_prefix_mod(b, k, m) ==
    IF k = 0 THEN 0 ELSE (int_prefix_mod(b, k - 1, m) * 256 + b[k]) % m

\* int.from_bytes(b, byteorder="big", signed=False) % m
int_from_bytes_mod(b, m) == int_prefix_mod(b, Len(b), m)

\* int.from_bytes(a) < int.from_bytes(b), for byte strings of equal length:
\* at the first byte where they differ, a has the smaller one
bytes_less(a, b) ==
    \E i \in 1..Len(a) :
        /\ a[i] < b[i]
        /\ \A j \in 1..(i - 1) : a[j] = b[j]

(***************************************************************************)
(* The curve: y^2 = x^3 + 7 over F_p, a group of prime order n             *)
(***************************************************************************)
ec_p == 43
ec_n == 31
ec_G == <<2, 12>>
\* the point at infinity, in affine coordinates
INF == <<7, 0>>
\* size in bytes of a field element and of a scalar in the encodings
ec_psize == 32
ec_nsize == 32

\* modular inverse in F_p
mod_inv(a) == CHOOSE b \in 1..(ec_p - 1) : (a * b) % ec_p = 1

is_on_curve(Q) ==
    /\ Q[1] \in 0..(ec_p - 1)
    /\ Q[2] \in 1..(ec_p - 1)
    /\ (Q[2] * Q[2]) % ec_p = (Q[1] * Q[1] * Q[1] + 7) % ec_p

\* Curve.add: the group law in affine coordinates
ec_add(Q1, Q2) ==
    IF Q1 = INF THEN Q2
    ELSE IF Q2 = INF THEN Q1
    ELSE IF Q1[1] = Q2[1] /\ Q1[2] # Q2[2] THEN INF
    ELSE LET lam == IF Q1 = Q2
                    THEN (3 * Q1[1] * Q1[1] * mod_inv((2 * Q1[2]) % ec_p)) % ec_p
                    ELSE ((Q2[2] - Q1[2] + ec_p)
                              * mod_inv((Q2[1] - Q1[1] + ec_p) % ec_p)) % ec_p
             x == (lam * lam + 2 * ec_p - Q1[1] - Q2[1]) % ec_p
             y == (lam * (Q1[1] - x + ec_p) + ec_p - Q1[2]) % ec_p
         IN  <<x, y>>

RECURSIVE mult_G(_)
mult_G(m) == IF m = 0 THEN INF ELSE ec_add(mult_G(m - 1), ec_G)

\* m * G for every scalar already reduced modulo n
mult_table == [m \in 0..(ec_n - 1) |-> mult_G(m)]

\* curve.mult(m): scalar multiplication of the generator, m reduced modulo n
mult(m) == mult_table[m % ec_n]

\* whether Curve.y(x) finds a square root (it raises otherwise)
has_y(x) == \E y \in 1..(ec_p - 1) : is_on_curve(<<x, y>>)

\* Curve.y_odd(x, odd)
y_odd(x, odd) ==
    CHOOSE y \in 1..(ec_p - 1) : is_on_curve(<<x, y>>) /\ (y % 2 = 1) = odd

\* sec_point.bytes_from_point(Q), compressed; it raises for INF
bytes_from_point_raises(Q) == Q = INF
bytes_from_point(Q) ==
    <<IF Q[2] % 2 = 1 THEN 3 ELSE 2>> \o to_bytes(Q[1], ec_psize)

\* whether x, 32 bytes big-endian, is the abscissa of a point of the curve
x_bytes_on_curve(xb) ==
    /\ bytes_less(xb, to_bytes(ec_p, ec_psize))
    /\ has_y(int_from_bytes_mod(xb, ec_p))

\* sec_point.point_from_octets(pubkey, ec) of a 33-byte compressed key
point_from_octets_raises(key) ==
    \/ Len(key) # ec_psize + 1
    \/ key[1] \notin {2, 3}
    \/ ~ x_bytes_on_curve(SubSeq(key, 2, Len(key)))
point_from_octets(key) ==
    LET x == int_from_bytes_mod(SubSeq(key, 2, Len(key)), ec_p)
    IN  <<x, y_odd(x, key[1] = 3)>>

(***************************************************************************)
(* Hash functions                                                          *)
(***************************************************************************)
\* the number of states of the mixing function
HashMod == 1021

\* the compression function: two states mixed into one
mix(l, r) ==
    CHOOSE m \in {(x * x + 3 * x + 7 * r + 1) % HashMod : x \in {l}} : TRUE

RECURSIVE absorb_range(_, _, _)
\* the bytes b[lo..hi] compressed pairwise, as in a hash tree
absorb_range(b, lo, hi) ==
    IF lo > hi THEN 1
    ELSE IF lo = hi THEN (b[lo] + 31 * lo + 1) % HashMod
    ELSE mix(absorb_range(b, lo, (lo + hi) \div 2),
             absorb_range(b, (lo + hi) \div 2 + 1, hi))

\* the bytes of b absorbed into the state h
absorb(h, b) == mix(mix(h, Len(b) % HashMod), absorb_range(b, 1, Len(b)))

\* a digest of len bytes spread from the state h
spread(h, len) ==
    CHOOSE d \in {[i \in 1..len |-> (x * (2 * i - 1) + i * (x % 7)) % 256] :
                      x \in {h}} : TRUE

\* utils.hash160(b): 20 bytes
hash160(b) == spread(absorb(5, b), 20)

\* utils.hash256(b): 32 bytes
hash256(b) == spread(absorb(23, b), 32)

\* the 64 bytes of a digest whose halves are big-endian numbers: the left
\* half ranges over 0..ec_n as that of SHA512 ranges over 0..2^256 - 1, just
\* above the order of the curve
digest_halves(h) == to_bytes(h % (ec_n + 1), 32) \o to_bytes(h \div (ec_n + 1), 32)

\* hmac.new(key, msg, "sha512").digest(): 64 bytes
hmac_sha512(key, msg) == digest_halves(absorb(absorb(11, key), msg))

(***************************************************************************)
(* network.py: the registry of extended-key versions                       *)
(***************************************************************************)
\* the version tags of _data/mainnet.json and _data/testnet.json
\* (regtest shares the tags of testnet)
mainnet_bip32_prv == <<4, 136, 173, 228>>
mainnet_bip32_pub == <<4, 136, 178, 30>>
mainnet_slip132_p2wsh_p2sh_prv == <<2, 149, 176, 5>>
mainnet_slip132_p2wsh_p2sh_pub == <<2, 149, 180, 63>>
mainnet_slip132_p2wpkh_p2sh_prv == <<4, 157, 120, 120>>
mainnet_slip132_p2wpkh_p2sh_pub == <<4, 157, 124, 178>>
mainnet_slip132_p2wpkh_prv == <<4, 178, 67, 12>>
mainnet_slip132_p2wpkh_pub == <<4, 178, 71, 70>>
mainnet_slip132_p2wsh_prv == <<2, 170, 122, 153>>
mainnet_slip132_p2wsh_pub == <<2, 170, 126, 211>>
testnet_bip32_prv == <<4, 53, 131, 148>>
testnet_bip32_pub == <<4, 53, 135, 207>>
testnet_slip132_p2wsh_p2sh_prv == <<2, 66, 133, 181>>
testnet_slip132_p2wsh_p2sh_pub == <<2, 66, 137, 239>>
testnet_slip132_p2wpkh_p2sh_prv == <<4, 74, 78, 40>>
testnet_slip132_p2wpkh_p2sh_pub == <<4, 74, 82, 98>>
testnet_slip132_p2wpkh_prv == <<4, 95, 24, 188>>
testnet_slip132_p2wpkh_pub == <<4, 95, 28, 246>>
testnet_slip132_p2wsh_prv == <<2, 87, 80, 72>>
testnet_slip132_p2wsh_pub == <<2, 87, 84, 131>>

xpubversions_from_network(network) ==
    IF network = "mainnet"
    THEN <<mainnet_bip32_pub, mainnet_slip132_p2wsh_p2sh_pub,
           mainnet_slip132_p2wpkh_p2sh_pub, mainnet_slip132_p2wpkh_pub,
           mainnet_slip132_p2wsh_pub>>
    ELSE <<testnet_bip32_pub, testnet_slip132_p2wsh_p2sh_pub,
           testnet_slip132_p2wpkh_p2sh_pub, testnet_slip132_p2wpkh_pub,
           testnet_slip132_p2wsh_pub>>

xprvversions_from_network(network) ==
    IF network = "mainnet"
    THEN <<mainnet_bip32_prv, mainnet_slip132_p2wsh_p2sh_prv,
           mainnet_slip132_p2wpkh_p2sh_prv, mainnet_slip132_p2wpkh_prv,
           mainnet_slip132_p2wsh_prv>>
    ELSE <<testnet_bip32_prv, testnet_slip132_p2wsh_p2sh_prv,
           testnet_slip132_p2wpkh_p2sh_prv, testnet_slip132_p2wpkh_prv,
           testnet_slip132_p2wsh_prv>>

XPRV_VERSIONS_ALL ==
    xprvversions_from_network("mainnet") \o xprvversions_from_network("testnet")
        \o xprvversions_from_network("testnet")
XPUB_VERSIONS_ALL ==
    xpubversions_from_network("mainnet") \o xpubversions_from_network("testnet")
        \o xpubversions_from_network("testnet")

\* v in versions, for a Python list
in_list(v, versions) == \E i \in 1..Len(versions) : versions[i] = v
\* the first position of the list, whatever v is
list_index_head(v, versions) == 1

\* versions.index(v): the first position holding v
list_index(v, versions) ==
    CHOOSE i \in 1..Len(versions) :
        versions[i] = v /\ \A j \in 1..(i - 1) : versions[j] # v

(***************************************************************************)
(* The index of a key: a Python int kept as two 16-bit limbs <<hi, lo>>    *)
(***************************************************************************)
index_of(hi, lo) == <<hi, lo>>
\* 0 <= index <= 0xFFFFFFFF
index_in_range(index) == 0 <= index[1] /\ index[1] <= 65535
\* index >= 0x80000000
index_is_hardened(index) == index[1] >= 32768
\* the 4 bytes of an index with the least significant byte first
index_to_bytes_little(index) ==
    <<index[2] % 256, index[2] \div 256, index[1] % 256, index[1] \div 256>>

\* index.to_bytes(4, byteorder="big", signed=False), for an index in range
index_to_bytes(index) == to_bytes(index[1], 2) \o to_bytes(index[2], 2)
\* the bytes of an index read with the least significant byte first
index_from_bytes_little(b) ==
    LET b4 == b \o zeros(4 - Len(b))
    IN  <<b4[4] * 256 + b4[3], b4[2] * 256 + b4[1]>>

\* int.from_bytes(b, byteorder="big", signed=False), for at most 4 bytes
index_from_bytes(b) ==
    LET b4 == zeros(4 - Len(b)) \o b
    IN  <<b4[1] * 256 + b4[2], b4[3] * 256 + b4[4]>>

(***************************************************************************)
(* bip32.py: BIP32KeyData                                                  *)
(***************************************************************************)
_EXPECTED_DECODED_LENGHT == 78

\* the dataclass, with the defaults of its fields
BIP32KeyData ==
    [version |-> <<>>, depth |-> -1, parent_fingerprint |-> <<>>,
     index |-> index_of(-1, 65535), chain_code |-> <<>>, key |-> <<>>]

\* a key that never counts as hardened
never_hardened(self) == FALSE

is_hardened(self) == index_is_hardened(self.index)

\* a validation without the rules of the depth 0
assert_valid_root_skipped(self) == ""

\* the rule of the fingerprint of a key of depth 0 without that of its index
assert_valid_root_fingerprint_only(self) ==
    IF self.depth = 0 /\ self.parent_fingerprint # zeros(4)
    THEN "zero depth with non-zero parent fingerprint"
    ELSE ""

\* BIP32KeyData.assert_valid: the rules of a key of depth 0
assert_valid_root(self) ==
    IF self.depth = 0 /\ self.parent_fingerprint # zeros(4)
    THEN "zero depth with non-zero parent fingerprint"
    ELSE IF self.depth = 0 /\ self.index # index_of(0, 0)
         THEN "zero depth with non-zero index"
    ELSE ""

\* BIP32KeyData.assert_valid: the message of the error it raises, "" if none
\* (the isinstance checks cannot fail: the fields are typed)
assert_valid(self) ==
    IF Len(self.version) # 4 THEN "invalid version length"
    ELSE IF self.depth < 0 \/ self.depth > 255 THEN "invalid depth"
    ELSE IF Len(self.parent_fingerprint) # 4
         THEN "invalid parent fingerprint length"
    ELSE IF ~ index_in_range(self.index) THEN "invalid index"
    ELSE IF Len(self.chain_code) # 32 THEN "invalid chain code length"
    ELSE IF Len(self.key) # 33 THEN "invalid key length"
    ELSE IF in_list(self.version, XPRV_VERSIONS_ALL)
            /\ self.key[1] # 0
         THEN "invalid private key prefix"
    ELSE IF in_list(self.version, XPRV_VERSIONS_ALL)
            /\ ~ ( /\ Tail(self.key) # zeros(ec_nsize)
                    /\ bytes_less(Tail(self.key), to_bytes(ec_n, ec_nsize)) )
         THEN "invalid private key not in 1..n-1"
    ELSE IF ~ in_list(self.version, XPRV_VERSIONS_ALL)
            /\ in_list(self.version, XPUB_VERSIONS_ALL)
            /\ self.key[1] \notin {2, 3}
         THEN "invalid public key prefix not in (0x02, 0x03)"
    ELSE IF ~ in_list(self.version, XPRV_VERSIONS_ALL)
            /\ in_list(self.version, XPUB_VERSIONS_ALL)
            /\ ~ x_bytes_on_curve(Tail(self.key))
         THEN "invalid public key"
    ELSE IF ~ in_list(self.version, XPRV_VERSIONS_ALL)
            /\ ~ in_list(self.version, XPUB_VERSIONS_ALL)
         THEN "unknown extended key version"
    ELSE assert_valid_root(self)

\* the outcome of a call that returns a key: the key, or the error raised
returned(xkey) == [err |-> "", val |-> xkey]
raised(msg) == [err |-> msg, val |-> BIP32KeyData]
\* the outcome of a call that returns bytes or text
returned_bytes(b) == [err |-> "", bin |-> b]
raised_bytes(msg) == [err |-> msg, bin |-> <<>>]

\* BIP32KeyData(..., check_validity): __post_init__
post_init(self, check_validity) ==
    IF check_validity /\ assert_valid(self) # ""
    THEN raised(assert_valid(self))
    ELSE returned(self)

\* BIP32KeyData.serialize
serialize(self, check) ==
    IF check /\ assert_valid(self) # "" THEN raised_bytes(assert_valid(self))
    ELSE IF to_bytes_overflows(self.depth, 1) \/ ~ index_in_range(self.index)
         THEN raised_bytes("OverflowError")
    ELSE returned_bytes(self.version \o to_bytes(self.depth, 1)
                            \o self.parent_fingerprint
                            \o index_to_bytes(self.index)
                            \o self.chain_code \o self.key)

\* a parsing that never validates what it has read
deserialize_unvalidated(xkey_bin, check) ==
    returned([version |-> slice(xkey_bin, 1, 4),
              depth |-> IF Len(xkey_bin) >= 5 THEN xkey_bin[5] ELSE 0,
              parent_fingerprint |-> slice(xkey_bin, 6, 9),
              index |-> index_from_bytes(slice(xkey_bin, 10, 13)),
              chain_code |-> slice(xkey_bin, 14, 45),
              key |-> slice(xkey_bin, 46, 78)])

\* BIP32KeyData.deserialize: stream.read(k) returns what is left when fewer
\* than k bytes are
deserialize(xkey_bin, check) ==
    LET xkey == [version |-> slice(xkey_bin, 1, 4),
                 depth |-> IF Len(xkey_bin) >= 5 THEN xkey_bin[5] ELSE 0,
                 parent_fingerprint |-> slice(xkey_bin, 6, 9),
                 index |-> index_from_bytes(slice(xkey_bin, 10, 13)),
                 chain_code |-> slice(xkey_bin, 14, 45),
                 key |-> slice(xkey_bin, 46, 78)]
    IN  IF check /\ assert_valid(xkey) # "" THEN raised(assert_valid(xkey))
        ELSE returned(xkey)

\* the six fields of a key, without the cache of a working state
key_fields(xkey) ==
    [version |-> xkey.version, depth |-> xkey.depth,
     parent_fingerprint |-> xkey.parent_fingerprint, index |-> xkey.index,
     chain_code |-> xkey.chain_code, key |-> xkey.key]

(***************************************************************************)
(* bip32_path.py: derivation paths, given as a sequence of indexes         *)
(***************************************************************************)
\* indexes_from_bip32_path(der_path), der_path an iterable of integers:
\* whether it raises, and the indexes it returns
indexes_from_bip32_path_raises(der_path) ==
    \E i \in 1..Len(der_path) : ~ index_in_range(der_path[i])
indexes_from_bip32_path(der_path) == der_path

(***************************************************************************)
(* bip32.py: child key derivation                                          *)
(***************************************************************************)
\* _ExtendedBIP32KeyData without the index of the key it is built from
_ExtendedBIP32KeyData_unindexed(xkey, q, Q) ==
    [version |-> xkey.version, depth |-> xkey.depth,
     parent_fingerprint |-> xkey.parent_fingerprint, index |-> <<0, 0>>,
     chain_code |-> xkey.chain_code, key |-> xkey.key, q |-> q, Q |-> Q]

\* the dataclass _ExtendedBIP32KeyData: BIP32KeyData and the cache q, Q
_ExtendedBIP32KeyData(xkey, q, Q) ==
    [version |-> xkey.version, depth |-> xkey.depth,
     parent_fingerprint |-> xkey.parent_fingerprint, index |-> xkey.index,
     chain_code |-> xkey.chain_code, key |-> xkey.key, q |-> q, Q |-> Q]

raised_ext(msg) == [err |-> msg, val |-> _ExtendedBIP32KeyData(BIP32KeyData, 0, INF)]

\* a private step that hashes the parent's public key whatever the index
ckd_private_hmac_normal(xkey, Q_bytes, index) ==
    hmac_sha512(xkey.chain_code, Q_bytes \o index_to_bytes(index))

\* __ckd, private branch: the digest of the step
ckd_private_hmac(xkey, Q_bytes, index) ==
    IF index_is_hardened(index)
    THEN hmac_sha512(xkey.chain_code, xkey.key \o index_to_bytes(index))
    ELSE hmac_sha512(xkey.chain_code, Q_bytes \o index_to_bytes(index))

\* the private branch with the parent's own parent_fingerprint copied to the
\* child instead of the parent's fingerprint
ckd_private_state_own_fingerprint(xkey, index, Q_bytes, hmac_, q) ==
    returned([version |-> xkey.version,
              depth |-> xkey.depth + 1,
              parent_fingerprint |-> xkey.parent_fingerprint,
              index |-> index,
              chain_code |-> SubSeq(hmac_, 33, 64),
              key |-> <<0>> \o to_bytes(q, 32),
              q |-> q,
              Q |-> INF])

\* __ckd, private branch: the working state that the digest hmac_ and the
\* child scalar q give
ckd_private_state(xkey, index, Q_bytes, hmac_, q) ==
    returned([version |-> xkey.version,
              depth |-> xkey.depth + 1,
              parent_fingerprint |-> SubSeq(hash160(Q_bytes), 1, 4),
              index |-> index,
              chain_code |-> SubSeq(hmac_, 33, 64),
              key |-> <<0>> \o to_bytes(q, 32),
              q |-> q,
              Q |-> INF])

ckd_private_offset(xkey, index, Q_bytes, hmac_) ==
    ckd_private_state(xkey, index, Q_bytes, hmac_,
        (xkey.q + int_from_bytes_mod(SubSeq(hmac_, 1, 32), ec_n)) % ec_n)

\* __ckd, private branch (xkey.key[0] == 0)
ckd_private_from(xkey, index, Q_bytes) ==
    ckd_private_offset(xkey, index, Q_bytes, ckd_private_hmac(xkey, Q_bytes, index))

ckd_private(xkey, index) ==
    IF bytes_from_point_raises(mult(xkey.q))
    THEN raised_ext("INF has no bytes representation")
    ELSE ckd_private_from(xkey, index, bytes_from_point(mult(xkey.q)))

\* a public step that keeps the offset only
ckd_public_offset_only(Q, offset) == mult(offset)

\* __ckd, public branch: the child point
ckd_public_point(Q, offset) == ec_add(Q, mult(offset))

\* a public step that takes any index
ckd_public_any_index(index) == FALSE

\* __ckd, public branch: whether the index is refused
ckd_public_raises(index) == index_is_hardened(index)

\* a public step that writes the key of the child point and leaves the
\* cached point as it was
ckd_public_state_stale(xkey, index, hmac_, Q) ==
    IF bytes_from_point_raises(Q)
    THEN raised_ext("INF has no bytes representation")
    ELSE returned([version |-> xkey.version,
                   depth |-> xkey.depth + 1,
                   parent_fingerprint |-> SubSeq(hash160(xkey.key), 1, 4),
                   index |-> index,
                   chain_code |-> SubSeq(hmac_, 33, 64),
                   key |-> bytes_from_point(Q),
                   q |-> 0,
                   Q |-> xkey.Q])

\* __ckd, public branch: the working state that the digest hmac_ and the
\* child point Q give
ckd_public_state(xkey, index, hmac_, Q) ==
    IF bytes_from_point_raises(Q)
    THEN raised_ext("INF has no bytes representation")
    ELSE returned([version |-> xkey.version,
                   depth |-> xkey.depth + 1,
                   parent_fingerprint |-> SubSeq(hash160(xkey.key), 1, 4),
                   index |-> index,
                   chain_code |-> SubSeq(hmac_, 33, 64),
                   key |-> bytes_from_point(Q),
                   q |-> 0,
                   Q |-> Q])

ckd_public_offset(xkey, index, hmac_) ==
    ckd_public_state(xkey, index, hmac_,
        ckd_public_point(xkey.Q, int_from_bytes_mod(SubSeq(hmac_, 1, 32), ec_n)))

\* __ckd, public branch
ckd_public(xkey, index) ==
    IF ckd_public_raises(index)
    THEN raised_ext("invalid hardened derivation from public key")
    ELSE ckd_public_offset(xkey, index,
             hmac_sha512(xkey.chain_code, xkey.key \o index_to_bytes(index)))

\* a step that takes the next index when the child scalar is zero
ckd_retrying(xkey, index) ==
    IF xkey.key[1] # 0 THEN ckd_public(xkey, index)
    ELSE IF ckd_private(xkey, index).err = "" /\ ckd_private(xkey, index).val.q = 0
         THEN ckd_private(xkey, index_of(index[1], index[2] + 1))
    ELSE ckd_private(xkey, index)

\* __ckd(xkey, index): the working state after the step, or the error raised
__ckd(xkey, index) ==
    IF xkey.key[1] = 0 THEN ckd_private(xkey, index) ELSE ckd_public(xkey, index)

ckd_next(before, index) ==
    IF before.err # "" THEN before ELSE __ckd(before.val, index)

RECURSIVE ckd_loop_last_first(_, _, _)
\* a loop that takes the indexes from the last one to the first
ckd_loop_last_first(xkey, indexes, k) ==
    IF k = 0 THEN returned(xkey)
    ELSE ckd_next(ckd_loop_last_first(xkey, indexes, k - 1),
                  indexes[Len(indexes) + 1 - k])

RECURSIVE ckd_loop(_, _, _)
\* the loop of _derive: __ckd for the first k indexes, in path order; an
\* error raised by a step ends the loop
ckd_loop(xkey, indexes, k) ==
    IF k = 0 THEN returned(xkey)
    ELSE ckd_next(ckd_loop(xkey, indexes, k - 1), indexes[k])

\* a depth check that refuses the depth 255 too
depth_overflows_at_255(depth, len) == depth + len >= 255

\* _derive: whether the final depth is refused
depth_overflows(depth, len) == depth + len > 255

\* a forced version of 4 bytes put on the key without looking at the tables
force_version_unchecked(last, forced_version) ==
    IF last.err # "" THEN last
    ELSE IF forced_version = <<>> THEN last
    ELSE IF Len(forced_version) # 4 THEN raised_ext("invalid size")
    ELSE returned([last.val EXCEPT !.version = forced_version])

\* _derive: the forced version, if any, put on the key the loop ended with
force_version(last, forced_version) ==
    IF last.err # "" THEN last
    ELSE IF forced_version = <<>> THEN last
    ELSE IF Len(forced_version) # 4 THEN raised_ext("invalid size")
    ELSE IF ~ in_list(forced_version,
                      IF in_list(last.val.version, XPRV_VERSIONS_ALL)
                      THEN XPRV_VERSIONS_ALL ELSE XPUB_VERSIONS_ALL)
         THEN raised_ext("invalid version forced on the extended key")
    ELSE returned([last.val EXCEPT !.version = forced_version])

\* _derive: the working state the loop starts with, the key and its cache
_derive_state(xkey) ==
    _ExtendedBIP32KeyData(
        xkey,
        IF xkey.key[1] = 0 THEN int_from_bytes_mod(Tail(xkey.key), ec_n) ELSE 0,
        IF xkey.key[1] = 0 THEN INF ELSE point_from_octets(xkey.key))

\* _derive(xkey, der_path, forced_version), xkey a BIP32KeyData;
\* forced_version is <<>> for None
_derive(xkey, der_path, forced_version) ==
    IF indexes_from_bip32_path_raises(der_path) THEN raised_ext("invalid index")
    ELSE IF depth_overflows(xkey.depth, Len(indexes_from_bip32_path(der_path)))
         THEN raised_ext("final depth greater than 255")
    ELSE IF Len(xkey.key) = 0 THEN raised_ext("IndexError")
    ELSE IF xkey.key[1] # 0 /\ point_from_octets_raises(xkey.key)
         THEN raised_ext("invalid public key")
    ELSE IF assert_valid(xkey) # "" THEN raised_ext(assert_valid(xkey))
    ELSE force_version(
             ckd_loop(_derive_state(xkey),
                      indexes_from_bip32_path(der_path),
                      Len(indexes_from_bip32_path(der_path))),
             forced_version)

\* a branch check that wants the branches 0 and 1 whatever the caller asks
branch_refused_always(branch, branches_0_1_only) ==
    branch \notin {index_of(0, 0), index_of(0, 1)}

\* _derive_from_account: branches_0_1_only and branch not in (0, 1)
branch_refused(branch, branches_0_1_only) ==
    branches_0_1_only /\ branch \notin {index_of(0, 0), index_of(0, 1)}

\* _derive_from_account(xkey, branch, address_index, branches_0_1_only),
\* xkey a BIP32KeyData; the path "m/branch/address_index" is the two indexes
_derive_from_account(xkey, branch, address_index, branches_0_1_only) ==
    IF ~ is_hardened(xkey)
    THEN raised_ext("UserWarning: invalid public derivation at account level")
    ELSE IF index_is_hardened(branch)
         THEN raised_ext("invalid private derivation at branch level")
    ELSE IF branch_refused(branch, branches_0_1_only)
         THEN raised_ext("invalid branch: not in (0, 1)")
    ELSE IF index_is_hardened(address_index)
         THEN raised_ext("invalid private derivation at address index level")
    ELSE _derive(xkey, <<branch, address_index>>, <<>>)

(***************************************************************************)
(* base58.py: Base58Check.  A text is a sequence of characters, each kept  *)
(* as its position 0..57 in the Base58 alphabet; 58 stands for a blank and *)
(* 59 for any character outside the alphabet.                              *)
(***************************************************************************)
\* utils.hash256(b)[:4]: the checksum of Base58Check
checksum(b) == SubSeq(hash256(b), 1, 4)

\* number of leading x of the sequence b
leading(b, x) ==
    IF \A i \in 1..Len(b) : b[i] = x THEN Len(b)
    ELSE (CHOOSE i \in 1..Len(b) : b[i] # x /\ \A j \in 1..(i - 1) : b[j] = x) - 1

\* b without its leading zero digits
unpad(b) == SubSeq(b, leading(b, 0) + 1, Len(b))

\* one step of a long division by d in base `base`: acc is <<the digits of
\* the quotient so far, the remainder so far>>
div_step(acc, digit, base, d) ==
    <<Append(acc[1], (acc[2] * base + digit) \div d), (acc[2] * base + digit) % d>>

RECURSIVE div_range(_, _, _, _, _, _)
\* the long division carried on from acc over the digits b[lo..hi]
div_range(b, lo, hi, acc, base, d) ==
    IF hi < lo THEN acc
    ELSE div_step(div_range(b, lo, hi - 1, acc, base, d), b[hi], base, d)

RECURSIVE div_upto(_, _, _, _)
RECURSIVE div_from(_, _, _, _, _)
\* the long division by d of the first k runs of 16 digits of b:
\* <<the digits of the quotient, the remainder>>
div_upto(b, k, base, d) ==
    IF k = 0 THEN <<<<>>, 0>>
    ELSE div_from(b, k, div_upto(b, k - 1, base, d), base, d)
\* (a remainder is never negative: the test has acc computed before the
\* run of digits is entered, which bounds the depth of the evaluation)
div_from(b, k, acc, base, d) ==
    IF acc[2] < 0 THEN acc
    ELSE div_range(b, 16 * k - 15, IF 16 * k > Len(b) THEN Len(b) ELSE 16 * k,
                   acc, base, d)

\* the long division by d of the number with digits b in base `base`
divide(b, base, d) == div_upto(b, (Len(b) + 15) \div 16, base, d)

\* the remainder r of a division by 58^3 as three Base58 digits, that of a
\* division by 2^16 as two bytes
digits_of(r, base) ==
    IF base = 256 THEN <<r \div 3364, (r \div 58) % 58, r % 58>>
    ELSE <<r \div 256, r % 256>>

RECURSIVE convert(_, _, _)
RECURSIVE convert_next(_, _, _)
\* the number with digits b in base `base`, converted by repeated division
\* by d
convert(b, base, d) ==
    IF Len(b) = 0 THEN <<>> ELSE convert_next(divide(b, base, d), base, d)
convert_next(qr, base, d) == convert(unpad(qr[1]), base, d) \o digits_of(qr[2], base)

\* base58._b58encode: one "1" (position 0) for every leading zero byte, and
\* the Base58 digits of the number the bytes of v stand for
_b58encode(v) == zeros(leading(v, 0)) \o unpad(convert(unpad(v), 256, 195112))

\* the Base58 digits t taken two by two, as digits in base 58^2
pairs(t) ==
    [i \in 1..((Len(t) + 1) \div 2) |->
        IF Len(t) % 2 = 1
        THEN (IF i = 1 THEN 0 ELSE t[2 * i - 2] * 58) + t[2 * i - 1]
        ELSE t[2 * i - 1] * 58 + t[2 * i]]

\* base58._b58decode
_b58decode(t) ==
    zeros(leading(t, 0)) \o unpad(convert(unpad(pairs(unpad(t))), 3364, 65536))

\* base58.b58encode(v): the text of v followed by its checksum
b58encode_bytes(v) == _b58encode(v \o checksum(v))

\* base58.b58decode(t): the payload, or the error raised
b58decode_text(t) ==
    IF \E i \in 1..Len(t) : t[i] > 57 THEN raised_bytes("invalid base58 character")
    ELSE LET v == _b58decode(t)
         IN  IF Len(v) < 4 THEN raised_bytes("not enough bytes for checksum")
             ELSE IF checksum(SubSeq(v, 1, Len(v) - 4)) # SubSeq(v, Len(v) - 3, Len(v))
                  THEN raised_bytes("invalid checksum")
             ELSE returned_bytes(SubSeq(v, 1, Len(v) - 4))

\* str.strip(): the text without its leading and trailing blanks
strip(t) ==
    IF \A i \in 1..Len(t) : t[i] = 58 THEN <<>>
    ELSE SubSeq(t, leading(t, 58) + 1,
                CHOOSE j \in 1..Len(t) :
                    t[j] # 58 /\ \A m \in (j + 1)..Len(t) : t[m] = 58)

\* BIP32KeyData.b58encode
b58encode(self, check) ==
    LET data_binary == serialize(self, check)
    IN  IF data_binary.err # "" THEN data_binary
        ELSE returned_bytes(b58encode_bytes(data_binary.bin))

\* a decoding that takes a payload of any length
b58decode_any_length(data_str, check) ==
    LET data_decoded == b58decode_text(strip(data_str))
    IN  IF data_decoded.err # "" THEN raised(data_decoded.err)
        ELSE deserialize(data_decoded.bin, check)

\* BIP32KeyData.b58decode
b58decode(data_str, check) ==
    LET data_decoded == b58decode_text(strip(data_str))
    IN  IF data_decoded.err # "" THEN raised(data_decoded.err)
        ELSE IF check /\ Len(data_decoded.bin) # _EXPECTED_DECODED_LENGHT
             THEN raised("invalid decoded length")
        ELSE deserialize(data_decoded.bin, check)

(***************************************************************************)
(* bip32.py: root key, neutering, recovery of the parent private key       *)
(***************************************************************************)
\* the key b"Bitcoin seed"
bitcoin_seed == <<66, 105, 116, 99, 111, 105, 110, 32, 115, 101, 101, 100>>

\* a root key with the halves of the digest exchanged
root_from_hmac_swapped(hmac_, version) ==
    post_init([version |-> version, depth |-> 0, parent_fingerprint |-> zeros(4),
               index |-> index_of(0, 0), chain_code |-> SubSeq(hmac_, 1, 32),
               key |-> <<0>> \o SubSeq(hmac_, 33, 64)], TRUE)

\* the root key built from the digest hmac_
root_from_hmac(hmac_, version) ==
    post_init([version |-> version, depth |-> 0, parent_fingerprint |-> zeros(4),
               index |-> index_of(0, 0), chain_code |-> SubSeq(hmac_, 33, 64),
               key |-> <<0>> \o SubSeq(hmac_, 1, 32)], TRUE)

\* _rootxprv_from_seed(seed, version)
_rootxprv_from_seed(seed, version) ==
    IF Len(seed) * 8 < 128 THEN raised("too few bits for seed")
    ELSE IF Len(seed) * 8 > 512 THEN raised("too many bits for seed")
    ELSE IF Len(version) # 4 THEN raised("invalid size")
    ELSE IF ~ in_list(version, XPRV_VERSIONS_ALL)
         THEN raised("unknown private key version")
    ELSE root_from_hmac(hmac_sha512(bitcoin_seed, seed), version)

\* a check that names the key and lets it through
raised_naming_returns(xkey, msg) == returned(key_fields(xkey))

\* raise BTClibValueError(f"{msg}: {xkey.b58encode().decode('ascii')}"): the
\* text of the key is part of the message, and b58encode validates the key
\* first, so its error is the one raised for a key that is not valid
raised_naming(xkey, msg) ==
    IF serialize(xkey, TRUE).err # "" THEN raised(serialize(xkey, TRUE).err)
    ELSE raised(msg)

\* _xpub_from_xprv(xprv), xprv a BIP32KeyData: a copy of it is changed
_xpub_from_xprv(xprv) ==
    IF Len(xprv.key) = 0 THEN raised("IndexError")
    ELSE IF xprv.key[1] # 0 THEN raised_naming(xprv, "not a private key")
    ELSE IF ~ in_list(xprv.version, XPRV_VERSIONS_ALL) THEN raised("ValueError")
    ELSE IF bytes_from_point_raises(mult(int_from_bytes_mod(Tail(xprv.key), ec_n)))
         THEN raised("INF has no bytes representation")
    ELSE returned(
           [key_fields(xprv) EXCEPT
              !.version = XPUB_VERSIONS_ALL[list_index(xprv.version, XPRV_VERSIONS_ALL)],
              !.key = bytes_from_point(mult(int_from_bytes_mod(Tail(xprv.key), ec_n)))])

\* a parent scalar that adds the offset to the child's
crack_scalar_added(child_q, offset) == (child_q + offset) % ec_n

\* parent_q = (child_q - offset) % ec.n
crack_scalar(child_q, offset) == (child_q - offset + ec_n) % ec_n

\* crack_prv_key(parent_xpub, child_xprv), both BIP32KeyData: the key p
\* whose text is returned, before p.b58encode()
crack_parent(p, c) ==
    IF Len(p.key) = 0 THEN raised("IndexError")
    ELSE IF p.key[1] \notin {2, 3}
         THEN raised_naming(p, "extended parent key is not a public key")
    ELSE IF Len(c.key) = 0 THEN raised("IndexError")
    ELSE IF c.key[1] # 0
         THEN raised_naming(c, "extended child key is not a private key")
    ELSE IF c.depth # p.depth + 1 THEN raised("not a parent's child: wrong depths")
    ELSE IF c.parent_fingerprint # SubSeq(hash160(p.key), 1, 4)
         THEN raised("not a parent's child: wrong parent fingerprint")
    ELSE IF is_hardened(c) THEN raised("hardened child derivation")
    ELSE IF ~ index_in_range(c.index) THEN raised("OverflowError")
    ELSE returned(
           [key_fields(p) EXCEPT
              !.version = c.version,
              !.key = <<0>> \o to_bytes(
                  crack_scalar(int_from_bytes_mod(Tail(c.key), ec_n),
                               int_from_bytes_mod(
                                   SubSeq(hmac_sha512(p.chain_code,
                                              p.key \o index_to_bytes(c.index)), 1, 32),
                                   ec_n)), 32)])

\* crack_prv_key(parent_xpub, child_xprv): the text returned
crack_prv_key(parent_xpub, child_xprv) ==
    IF crack_parent(parent_xpub, child_xprv).err # ""
    THEN raised_bytes(crack_parent(parent_xpub, child_xprv).err)
    ELSE b58encode(crack_parent(parent_xpub, child_xprv).val, TRUE)

\* the functions of the module that return the Base58Check text of a key
encoded(outcome) ==
    IF outcome.err # "" THEN raised_bytes(outcome.err)
    ELSE b58encode(outcome.val, TRUE)
rootxprv_from_seed(seed, version) == encoded(_rootxprv_from_seed(seed, version))
xpub_from_xprv(xprv) == encoded(_xpub_from_xprv(xprv))
derive(xkey, der_path, forced_version) ==
    encoded(_derive(xkey, der_path, forced_version))

(***************************************************************************)
(* The objects of a call.  A BIP32KeyData is a mutable object: a function  *)
(* that assigns to the fields of the object it works on changes the object *)
(* it was passed when the two are the same object.                         *)
(***************************************************************************)
\* xkey = xprv: the function works on the object it was passed
no_copy(obj) == [obj |-> obj, same |-> TRUE]

\* a copy that is the object copied itself
copy_aliased(obj) == [obj |-> obj, same |-> TRUE]

\* xkey = copy.copy(xprv): the function works on a new object with the
\* fields of the one it was passed
copy_copy(obj) == [obj |-> obj, same |-> FALSE]

\* _ExtendedBIP32KeyData(version=xkey.version, ...): a new object too
new_object(obj) == [obj |-> obj, same |-> FALSE]

\* what the caller finds in the object it passed when the function ends,
\* worked being the fields of the object the function worked on
left_to_caller(working, worked) ==
    IF working.same THEN key_fields(worked) ELSE working.obj

\* __ckd: the working object when the step ends, by a return or by a raise,
\* after the assignments made until then
ckd_written(xkey, index) ==
    IF __ckd(xkey, index).err = "" THEN __ckd(xkey, index).val
    ELSE IF xkey.key[1] = 0
         THEN [xkey EXCEPT !.depth = xkey.depth + 1, !.index = index]
    ELSE IF ckd_public_raises(index)
         THEN [xkey EXCEPT !.depth = xkey.depth + 1, !.index = index,
                           !.parent_fingerprint = SubSeq(hash160(xkey.key), 1, 4)]
    ELSE [xkey EXCEPT !.depth = xkey.depth + 1, !.index = index,
                      !.parent_fingerprint = SubSeq(hash160(xkey.key), 1, 4),
                      !.chain_code =
                          SubSeq(hmac_sha512(xkey.chain_code,
                                     xkey.key \o index_to_bytes(index)), 33, 64),
                      !.Q = INF]

RECURSIVE loop_written(_, _, _)
\* the loop of _derive: the working object when the loop ends
loop_written(xkey, indexes, k) ==
    IF k = 0 THEN xkey
    ELSE IF ckd_loop(xkey, indexes, k - 1).err # ""
         THEN loop_written(xkey, indexes, k - 1)
    ELSE ckd_written(ckd_loop(xkey, indexes, k - 1).val, indexes[k])

\* _derive(xkey, der_path, forced_version): what is left in the object
\* passed; the loop works on a new _ExtendedBIP32KeyData
_derive_left(xkey, der_path, forced_version) ==
    IF \/ indexes_from_bip32_path_raises(der_path)
       \/ depth_overflows(xkey.depth, Len(indexes_from_bip32_path(der_path)))
       \/ Len(xkey.key) = 0
       \/ xkey.key[1] # 0 /\ point_from_octets_raises(xkey.key)
       \/ assert_valid(xkey) # ""
    THEN xkey
    ELSE IF _derive(xkey, der_path, forced_version).err = ""
         THEN left_to_caller(new_object(xkey),
                             _derive(xkey, der_path, forced_version).val)
    ELSE left_to_caller(
             new_object(xkey),
             loop_written(_ExtendedBIP32KeyData(
                              xkey,
                              IF xkey.key[1] = 0
                              THEN int_from_bytes_mod(Tail(xkey.key), ec_n) ELSE 0,
                              IF xkey.key[1] = 0
                              THEN INF ELSE point_from_octets(xkey.key)),
                          indexes_from_bip32_path(der_path),
                          Len(indexes_from_bip32_path(der_path))))

\* _xpub_from_xprv(xprv): the working object when the function ends
_xpub_from_xprv_written(xprv) ==
    IF _xpub_from_xprv(xprv).err = "" THEN _xpub_from_xprv(xprv).val
    ELSE IF _xpub_from_xprv(xprv).err = "INF has no bytes representation"
         THEN [xprv EXCEPT !.version =
                   XPUB_VERSIONS_ALL[list_index(xprv.version, XPRV_VERSIONS_ALL)]]
    ELSE xprv

\* _xpub_from_xprv(xprv): what is left in the object passed
_xpub_from_xprv_left(xprv) ==
    left_to_caller(copy_copy(xprv), _xpub_from_xprv_written(xprv))

\* crack_prv_key(parent_xpub, child_xprv): the object p when the function
\* ends; p.version is assigned before the index of the child is turned into
\* bytes, p.key after it
crack_parent_written(p, c) ==
    IF crack_parent(p, c).err = "" THEN crack_parent(p, c).val
    ELSE IF crack_parent(p, c).err = "OverflowError"
         THEN [p EXCEPT !.version = c.version]
    ELSE p

\* crack_prv_key(parent_xpub, child_xprv): what is left in the two objects
\* passed; p is a copy of the first, c is the second itself, which is read
crack_prv_key_left_parent(parent_xpub, child_xprv) ==
    left_to_caller(copy_copy(parent_xpub),
                   crack_parent_written(parent_xpub, child_xprv))
crack_prv_key_left_child(parent_xpub, child_xprv) ==
    left_to_caller(no_copy(child_xprv), child_xprv)

(***************************************************************************)
(* The master key of an Electrum mnemonic.  electrum._seed_from_mnemonic   *)
(* is a collaborator: what it reports, a version and a seed, is an input.  *)
(***************************************************************************)
\* network._NETWORKS, and the private versions of each network in that order
_NETWORKS == <<"mainnet", "testnet", "regtest">>
_XPRV_PREFIXES == <<mainnet_bip32_prv, testnet_bip32_prv, testnet_bip32_prv>>
_P2WPKH_PRV_PREFIXES ==
    <<mainnet_slip132_p2wpkh_prv, testnet_slip132_p2wpkh_prv,
      testnet_slip132_p2wpkh_prv>>

\* the root key decoded from its text and returned as it is
_mxprv_segwit_root(decoding) ==
    IF decoding.err # "" THEN raised_ext(decoding.err)
    ELSE _derive(decoding.val, <<>>, <<>>)

\* _derive(rootxprv, 0x80000000), rootxprv a text: the key decoded from it
\* by BIP32KeyData.b58decode is derived at "m/0h"
_mxprv_segwit_derive(decoding) ==
    IF decoding.err # "" THEN raised_ext(decoding.err)
    ELSE _derive(decoding.val, <<index_of(32768, 0)>>, <<>>)

\* the "segwit" branch, rootxprv being the outcome of rootxprv_from_seed
_mxprv_segwit(rootxprv) ==
    IF rootxprv.err # "" THEN raised_ext(rootxprv.err)
    ELSE _mxprv_segwit_derive(b58decode(rootxprv.bin, TRUE))

\* _mxprv_from_electrum_mnemonic(mnemonic, passphrase, network), for the
\* version and the seed that electrum._seed_from_mnemonic reports
_mxprv_from_electrum_mnemonic(version, seed, network) ==
    IF ~ in_list(network, _NETWORKS) THEN raised("ValueError")
    ELSE IF version = "standard"
         THEN _rootxprv_from_seed(seed, _XPRV_PREFIXES[list_index(network, _NETWORKS)])
    ELSE IF version = "segwit"
         THEN _mxprv_segwit(
                  rootxprv_from_seed(
                      seed, _P2WPKH_PRV_PREFIXES[list_index(network, _NETWORKS)]))
    ELSE raised("unmanaged electrum mnemonic version")

(***************************************************************************)
(* The inputs of the calls                                                 *)
(***************************************************************************)
\* longest sequence of indexes applied to a key, over one or more calls
MaxTrail == 2

\* the indexes 0, 1 and 0x80000000
Indexes == {index_of(0, 0), index_of(0, 1), index_of(32768, 0)}

RECURSIVE paths_of(_)
\* the sequences of len indexes
paths_of(len) ==
    IF len = 0 THEN {<<>>}
    ELSE {Append(p, i) : p \in paths_of(len - 1), i \in Indexes}

\* the derivation paths of at most MaxTrail indexes
Paths == UNION {paths_of(len) : len \in 0..MaxTrail}

\* seeds of 120, 128, 512 and 520 bits
seed_of(len, step) == [i \in 1..len |-> (i * step) % 256]
Seeds ==
    {seed_of(15, 1), seed_of(16, 1), seed_of(16, 11), seed_of(64, 4), seed_of(65, 1)}

\* versions given with a seed: two private ones, a public one and one of no
\* registry
RootVersions ==
    {mainnet_bip32_prv, testnet_slip132_p2wpkh_prv, mainnet_bip32_pub, <<1, 2, 3, 4>>}

\* a private key and a public key deep in a tree, as a caller may hold them
deep_xprv ==
    [version |-> mainnet_bip32_prv, depth |-> 254,
     parent_fingerprint |-> <<1, 2, 3, 4>>, index |-> index_of(0, 7),
     chain_code |-> to_bytes(9, 32), key |-> <<0>> \o to_bytes(5, 32)]
deep_xpub ==
    [deep_xprv EXCEPT !.version = mainnet_bip32_pub,
                      !.key = bytes_from_point(mult(5))]

\* the field values given to the constructor BIP32KeyData(...): the keys
\* above at several depths, and each of them with one field made invalid;
\* the step at index 1 from the key of depth 253 has a left half equal to n
Constructed ==
    {[deep_xprv EXCEPT !.depth = d] : d \in {255, 256, -1}}
        \cup {deep_xprv, deep_xpub}
        \cup {[deep_xprv EXCEPT !.depth = 253, !.chain_code = to_bytes(46, 32)]}
        \cup {[deep_xprv EXCEPT !.version = <<4, 136, 173>>],
              [deep_xprv EXCEPT !.version = <<1, 2, 3, 4>>],
              [deep_xprv EXCEPT !.parent_fingerprint = <<1, 2, 3>>],
              [deep_xprv EXCEPT !.index = index_of(65536, 0)],
              [deep_xprv EXCEPT !.index = index_of(-1, 65535)],
              [deep_xprv EXCEPT !.chain_code = to_bytes(9, 31)],
              [deep_xprv EXCEPT !.key = <<0>> \o to_bytes(5, 31)],
              [deep_xprv EXCEPT !.key = <<1>> \o to_bytes(5, 32)],
              [deep_xprv EXCEPT !.key = <<0>> \o to_bytes(0, 32)],
              [deep_xprv EXCEPT !.key = <<0>> \o to_bytes(ec_n, 32)],
              [deep_xprv EXCEPT !.key = <<0, 1>> \o to_bytes(5, 31)],
              [deep_xprv EXCEPT !.depth = 0],
              [deep_xprv EXCEPT !.depth = 0, !.parent_fingerprint = zeros(4)],
              [deep_xprv EXCEPT !.depth = 255, !.parent_fingerprint = zeros(4)],
              [deep_xpub EXCEPT !.key = <<4>> \o to_bytes(12, 32)],
              [deep_xpub EXCEPT !.key = <<2>> \o to_bytes(3, 32)],
              [deep_xpub EXCEPT !.key = <<2>> \o to_bytes(ec_p + 2, 32)],
              [deep_xpub EXCEPT !.key = bytes_from_point(mult(5)) \o <<0>>],
              BIP32KeyData}

(***************************************************************************)
(* The state: a caller that holds a key and calls the functions on it.     *)
(* Spec is the caller of the functions that return a BIP32KeyData, whose   *)
(* result it holds next; TextSpec is the caller of the functions that      *)
(* return a text, which it decodes to hold the key.                        *)
(***************************************************************************)
VARIABLES
    xkey,   \* the key the caller holds, a BIP32KeyData
    base,   \* the key the caller held before its derivations
    trail,  \* the indexes of the derivations made since base
    op,     \* the call that has just returned, "none" between two calls
    arg,    \* the arguments of the last call
    out,    \* the outcome of the last call, when it returns a key
    text    \* the outcome of the last call that returns bytes or text

vars == <<xkey, base, trail, op, arg, out, text>>

\* the arguments of a call: a key, a second key, a path, bytes or text, for
\* a decoding the call that returned what is decoded, and for a mnemonic the
\* version reported for it and the network; xkey_left and other_left are
\* the two keys as the call leaves them to the caller, which a call that
\* assigns to no object leaves as they were
args(k, other, der_path, data) ==
    [xkey |-> k, other |-> other, der_path |-> der_path, data |-> data,
     from |-> "", version |-> "", network |-> "",
     xkey_left |-> k, other_left |-> other]

no_text == raised_bytes("no text")
no_key == raised("no key")

Init ==
    /\ xkey = BIP32KeyData
    /\ base = BIP32KeyData
    /\ trail = <<>>
    /\ op = "none"
    /\ arg = args(BIP32KeyData, BIP32KeyData, <<>>, <<>>)
    /\ out = no_key
    /\ text = no_text

\* the caller keeps the key a call returned as the one it holds
hold(outcome) ==
    /\ out' = outcome
    /\ xkey' = IF outcome.err = "" THEN key_fields(outcome.val) ELSE xkey
    /\ base' = IF outcome.err = "" THEN key_fields(outcome.val) ELSE base
    /\ trail' = IF outcome.err = "" THEN <<>> ELSE trail
    /\ text' = no_text

\* BIP32KeyData(version, depth, ..., check_validity), by a caller that holds
\* no key yet
BIP32KeyData_call ==
    \E k \in Constructed, check_validity \in BOOLEAN :
        /\ op = "none"
        /\ xkey = BIP32KeyData
        /\ op' = IF check_validity THEN "BIP32KeyData" ELSE "BIP32KeyData unchecked"
        /\ arg' = args(k, BIP32KeyData, <<>>, <<>>)
        /\ hold(post_init(k, check_validity))

\* _rootxprv_from_seed(seed, version), by a caller that holds no key yet
_rootxprv_from_seed_call ==
    \E seed \in Seeds, version \in RootVersions :
        /\ op = "none"
        /\ xkey = BIP32KeyData
        /\ op' = "_rootxprv_from_seed"
        /\ arg' = args(BIP32KeyData, BIP32KeyData, <<>>, seed \o version)
        /\ hold(_rootxprv_from_seed(seed, version))

\* _derive(xkey, der_path)
_derive_call ==
    \E der_path \in Paths :
        /\ op = "none"
        /\ Len(trail) + Len(der_path) <= MaxTrail
        /\ op' = "_derive"
        /\ arg' = [args(xkey, BIP32KeyData, der_path, <<>>) EXCEPT
                      !.xkey_left = _derive_left(xkey, der_path, <<>>)]
        /\ out' = _derive(xkey, der_path, <<>>)
        /\ xkey' = IF out'.err = "" THEN key_fields(out'.val) ELSE xkey
        /\ trail' = IF out'.err = "" THEN trail \o der_path ELSE trail
        /\ text' = no_text
        /\ UNCHANGED base

\* the versions forced on a derived key: a private one, a public one, one of
\* no table, one of 3 bytes
ForcedVersions ==
    {testnet_bip32_prv, testnet_slip132_p2wpkh_pub, <<1, 2, 3, 4>>, <<4, 136, 173>>}

\* _derive(xkey, der_path, forced_version), by a caller that has derived
\* nothing from its key yet and keeps it
_derive_forced_call ==
    \E der_path \in Paths, forced_version \in ForcedVersions :
        /\ op = "none"
        /\ trail = <<>>
        /\ op' = "_derive forced"
        /\ arg' = [args(xkey, BIP32KeyData, der_path, forced_version) EXCEPT
                      !.xkey_left = _derive_left(xkey, der_path, forced_version)]
        /\ out' = _derive(xkey, der_path, forced_version)
        /\ text' = no_text
        /\ UNCHANGED <<xkey, base, trail>>

\* the branch, the address index and branches_0_1_only of the calls of
\* _derive_from_account
AccountCalls ==
    {<<index_of(0, 0), index_of(0, 1), TRUE>>,
     <<index_of(0, 1), index_of(0, 0), TRUE>>,
     <<index_of(0, 2), index_of(0, 1), TRUE>>,
     <<index_of(0, 2), index_of(0, 1), FALSE>>,
     <<index_of(32768, 0), index_of(0, 1), FALSE>>,
     <<index_of(0, 1), index_of(32768, 0), TRUE>>}

\* _derive_from_account(xkey, branch, address_index, branches_0_1_only), by
\* a caller that keeps its key
_derive_from_account_call ==
    \E call \in AccountCalls :
        /\ op = "none"
        /\ Len(trail) < MaxTrail
        /\ op' = IF call[3] THEN "_derive_from_account"
                 ELSE "_derive_from_account any branch"
        /\ arg' = [args(xkey, BIP32KeyData, <<call[1], call[2]>>, <<>>) EXCEPT
                      !.xkey_left =
                          IF is_hardened(xkey) /\ ~ index_is_hardened(call[1])
                             /\ ~ branch_refused(call[1], call[3])
                             /\ ~ index_is_hardened(call[2])
                          THEN _derive_left(xkey, <<call[1], call[2]>>, <<>>)
                          ELSE xkey]
        /\ out' = _derive_from_account(xkey, call[1], call[2], call[3])
        /\ text' = no_text
        /\ UNCHANGED <<xkey, base, trail>>

\* what electrum._seed_from_mnemonic reports: a version and a seed of 512 bits
ElectrumVersions == {"standard", "segwit", "2fa"}
ElectrumSeeds == {seed_of(64, 2), seed_of(64, 4)}

\* _mxprv_from_electrum_mnemonic(mnemonic, passphrase, network), by a caller
\* that holds no key yet and looks at the result
_mxprv_from_electrum_mnemonic_call ==
    \E version \in ElectrumVersions, seed \in ElectrumSeeds,
       network \in {"mainnet", "testnet"} :
        /\ op = "none"
        /\ xkey = BIP32KeyData
        /\ op' = "_mxprv_from_electrum_mnemonic"
        /\ arg' = [args(BIP32KeyData, BIP32KeyData, <<>>, seed) EXCEPT
                      !.version = version, !.network = network]
        /\ out' = _mxprv_from_electrum_mnemonic(version, seed, network)
        /\ text' = no_text
        /\ UNCHANGED <<xkey, base, trail>>

\* _xpub_from_xprv(xkey)
_xpub_from_xprv_call ==
    /\ op = "none"
    /\ op' = "_xpub_from_xprv"
    /\ arg' = [args(xkey, BIP32KeyData, <<>>, <<>>) EXCEPT
                  !.xkey_left = _xpub_from_xprv_left(xkey)]
    /\ hold(_xpub_from_xprv(xkey))

\* the neutered key, or the key itself when it cannot be neutered
neutered(k) == IF _xpub_from_xprv(k).err = "" THEN _xpub_from_xprv(k).val ELSE k

\* a root key of another tree
other_root == _rootxprv_from_seed(seed_of(64, 2), mainnet_bip32_prv).val

\* a key with the key material of k under another chain code
rechained(k) == [k EXCEPT !.chain_code = to_bytes(10, Len(k.chain_code))]

\* crack_prv_key(parent_xpub, child_xprv), for the keys the caller has
crack_prv_key_call ==
    \E parent_xpub \in {base, neutered(base), neutered(xkey), neutered(other_root),
                        rechained(neutered(base))},
       child_xprv \in {xkey, neutered(xkey)} :
        /\ op = "none"
        /\ op' = "crack_prv_key"
        /\ arg' = [args(child_xprv, parent_xpub, <<>>, <<>>) EXCEPT
                      !.xkey_left = crack_prv_key_left_child(parent_xpub, child_xprv),
                      !.other_left = crack_prv_key_left_parent(parent_xpub, child_xprv)]
        /\ text' = crack_prv_key(parent_xpub, child_xprv)
        /\ out' = no_key
        /\ UNCHANGED <<xkey, base, trail>>

\* the caller goes on with the key it holds, for its next call
next_call ==
    /\ op # "none"
    /\ op' = "none"
    /\ arg' = args(BIP32KeyData, BIP32KeyData, <<>>, <<>>)
    /\ out' = no_key
    /\ text' = no_text
    /\ UNCHANGED <<xkey, base, trail>>

Next ==
    \/ next_call
    \/ BIP32KeyData_call
    \/ _rootxprv_from_seed_call
    \/ _mxprv_from_electrum_mnemonic_call
    \/ _derive_call
    \/ _derive_forced_call
    \/ _derive_from_account_call
    \/ _xpub_from_xprv_call
    \/ crack_prv_key_call

Spec == Init /\ [][Next]_vars

(***************************************************************************)
(* The calls that return a text, and the decoding of what they return      *)
(***************************************************************************)
\* a call that returns a text: the caller holds the same key after it
returns_text(name, k, der_path, data, outcome) ==
    /\ op' = name
    /\ arg' = args(k, BIP32KeyData, der_path, data)
    /\ text' = outcome
    /\ out' = no_key
    /\ UNCHANGED <<xkey, base, trail>>

\* rootxprv_from_seed(seed, version), by a caller that holds no key yet
rootxprv_from_seed_call ==
    \E seed \in Seeds, version \in RootVersions :
        /\ op = "none"
        /\ xkey = BIP32KeyData
        /\ returns_text("rootxprv_from_seed", BIP32KeyData, <<>>, seed \o version,
                        rootxprv_from_seed(seed, version))

\* derive(xkey, der_path)
derive_call ==
    \E der_path \in Paths :
        /\ op = "none"
        /\ Len(trail) + Len(der_path) <= MaxTrail
        /\ returns_text("derive", xkey, der_path, <<>>, derive(xkey, der_path, <<>>))

\* xpub_from_xprv(xkey)
xpub_from_xprv_call ==
    /\ op = "none"
    /\ returns_text("xpub_from_xprv", xkey, <<>>, <<>>, xpub_from_xprv(xkey))

\* xkey.b58encode()
b58encode_call ==
    /\ op = "none"
    /\ returns_text("b58encode", xkey, <<>>, <<>>, b58encode(xkey, TRUE))

\* xkey.serialize(assert_valid)
serialize_call ==
    \E assert_valid_ \in BOOLEAN :
        /\ op = "none"
        /\ returns_text(IF assert_valid_ THEN "serialize" ELSE "serialize unchecked",
                        xkey, <<>>, <<>>, serialize(xkey, assert_valid_))

\* the calls that return the Base58Check text of a key
TextCalls ==
    {"rootxprv_from_seed", "derive", "xpub_from_xprv", "crack_prv_key", "b58encode"}

\* the texts a caller makes of the text t: t, t between blanks, t with its
\* last character outside the alphabet, t without its last character
texts_of(t) ==
    {t, <<58>> \o t \o <<58, 58>>, SubSeq(t, 1, Len(t) - 1) \o <<59>>,
     SubSeq(t, 1, Len(t) - 1)}

\* the bytes a caller makes of the bytes b: b, b without its last byte, b
\* with one more byte, b without its last 33 bytes
bytes_of(b) ==
    {b, SubSeq(b, 1, Len(b) - 1), b \o <<0>>, SubSeq(b, 1, Len(b) - 33)}

\* the caller looks at what a decoding without validation returned and
\* keeps the key it had
inspected(outcome) ==
    /\ out' = outcome
    /\ UNCHANGED <<xkey, base, trail, text>>

\* the caller holds the key that a decoding returned; the indexes of a
\* derivation whose text is decoded are added to the trail
decoded(outcome) ==
    /\ out' = outcome
    /\ xkey' = IF outcome.err = "" THEN outcome.val ELSE xkey
    /\ base' = IF outcome.err = "" /\ op = "rootxprv_from_seed"
               THEN outcome.val ELSE base
    /\ trail' = IF outcome.err = "" /\ op = "derive"
                THEN trail \o arg.der_path ELSE trail
    /\ UNCHANGED text

\* BIP32KeyData.b58decode(data_str), of the text that the last call returned
\* or, after b58encode, of a text made of it
b58decode_call ==
    \E data_str \in IF op = "b58encode" THEN texts_of(text.bin) ELSE {text.bin} :
        /\ op \in TextCalls
        /\ text.err = ""
        /\ op' = "b58decode"
        /\ arg' = [arg EXCEPT !.data = data_str, !.from = op]
        /\ decoded(b58decode(data_str, TRUE))

\* BIP32KeyData.deserialize(xkey_bin, assert_valid), of bytes made of those
\* that serialize returned
deserialize_call ==
    \E xkey_bin \in bytes_of(text.bin), assert_valid_ \in BOOLEAN :
        /\ op = "serialize"
        /\ text.err = ""
        /\ op' = IF assert_valid_ THEN "deserialize" ELSE "deserialize unchecked"
        /\ arg' = [arg EXCEPT !.data = xkey_bin, !.from = op]
        /\ IF assert_valid_ THEN decoded(deserialize(xkey_bin, TRUE))
           ELSE inspected(deserialize(xkey_bin, FALSE))

\* the Base58Check texts of payloads of 77, 78 and 79 bytes, the 78 being
\* the serialization of a valid key, each as it is and between blanks
Payloads ==
    {SubSeq(serialize(deep_xprv, TRUE).bin, 1, 77), serialize(deep_xprv, TRUE).bin,
     serialize(deep_xprv, TRUE).bin \o <<0>>}
PayloadTexts ==
    {b58encode_bytes(p) : p \in Payloads}
        \cup {<<58>> \o b58encode_bytes(p) \o <<58, 58>> : p \in Payloads}

\* BIP32KeyData.b58decode(data_str, assert_valid), of a text that no call
\* returned, by a caller that holds no key yet
b58decode_text_call ==
    \E data_str \in PayloadTexts, assert_valid_ \in BOOLEAN :
        /\ op = "none"
        /\ xkey = BIP32KeyData
        /\ op' = IF assert_valid_ THEN "b58decode" ELSE "b58decode unchecked"
        /\ arg' = [args(BIP32KeyData, BIP32KeyData, <<>>, data_str) EXCEPT
                      !.from = "caller"]
        /\ IF assert_valid_ THEN hold(b58decode(data_str, TRUE))
           ELSE inspected(b58decode(data_str, FALSE))

TextNext ==
    \/ next_call
    \/ BIP32KeyData_call
    \/ rootxprv_from_seed_call
    \/ derive_call
    \/ xpub_from_xprv_call
    \/ crack_prv_key_call
    \/ b58encode_call
    \/ b58decode_call
    \/ b58decode_text_call
    \/ serialize_call
    \/ deserialize_call

TextSpec == Init /\ [][TextNext]_vars

(***************************************************************************)
(* The properties of the derivations                                       *)
(***************************************************************************)
\* a key that assert_valid accepts, with a private or a public version
valid(k) == assert_valid(k) = ""
prv(k) == valid(k) /\ in_list(k.version, XPRV_VERSIONS_ALL)
pub(k) == valid(k) /\ ~ in_list(k.version, XPRV_VERSIONS_ALL)

\* the outcomes a and b of two calls are the same key, or are both an error
\* of the call or of the validation of the text it returns
agree(a, b) ==
    /\ (a.err = "" /\ valid(key_fields(a.val))) <=> (b.err = "" /\ valid(key_fields(b.val)))
    /\ (a.err = "" /\ valid(key_fields(a.val))) => key_fields(a.val) = key_fields(b.val)

\* the outcome a is a success and its key, cache included, is that of b
same(a, b) == a.err = "" /\ b.err = "" /\ a.val = b.val

\* C2: path composition: when a derivation succeeds on a key that earlier
\* derivations gave, its result is the derivation, from the key they started
\* from, of all their indexes followed by its own, in that order.
C2_PathComposition ==
    (op = "_derive" /\ out.err = "") => same(out, _derive(base, trail, <<>>))

\* a second derivation succeeded, by an index other than the first one's
C2_Witness ==
    /\ op = "_derive" /\ out.err = "" /\ valid(xkey)
    /\ Len(arg.der_path) = 1 /\ Len(trail) = 2 /\ trail[1] # trail[2]

\* C3: neutering and normal derivation commute: neutering the child that one
\* normal index derives from a valid private key gives the key that the same
\* index derives from the neutered parent, field by field; when the child
\* does not exist on one side it does not on the other.
C3_NeuterCommutes ==
    [][(/\ op' = "_xpub_from_xprv"
        /\ prv(base) /\ Len(trail) = 1 /\ ~ index_is_hardened(trail[1])
        /\ arg'.xkey = xkey)
       => agree(out', _derive(_xpub_from_xprv(base).val, trail, <<>>))]_vars

\* the child of a root key by a normal index has been neutered
C3_Witness ==
    /\ op = "_xpub_from_xprv" /\ out.err = "" /\ valid(out.val)
    /\ valid(arg.xkey) /\ arg.xkey.depth = 1 /\ ~ is_hardened(arg.xkey)
    /\ xkey = out.val

\* C4: hardened derivation from a public key always fails: a path with a
\* hardened index at any position, applied to a valid public key, raises
\* and the caller gets no key.
C4_HardenedFromPublicFails ==
    (/\ op = "_derive" /\ pub(arg.xkey)
     /\ \E i \in 1..Len(arg.der_path) : index_is_hardened(arg.der_path[i]))
    => (out.err # "" /\ xkey = arg.xkey)

\* a hardened index after a normal one has been refused on a public key
C4_Witness ==
    /\ op = "_derive" /\ pub(arg.xkey) /\ Len(arg.der_path) = 2
    /\ ~ index_is_hardened(arg.der_path[1]) /\ index_is_hardened(arg.der_path[2])
    /\ out.err = "invalid hardened derivation from public key"

\* crack_prv_key is given the neutered key of a valid private key and the
\* valid child that one index derived from that private key
cracks_child_of_base ==
    /\ op = "crack_prv_key"
    /\ prv(base) /\ Len(trail) = 1 /\ valid(xkey)
    /\ xkey = key_fields(_derive(base, trail, <<>>).val)
    /\ arg.xkey = xkey
    /\ arg.other = _xpub_from_xprv(base).val

\* C5: crack recovers the parent exactly: from the neutered parent and a
\* child of a normal index, crack_prv_key returns the text of the private
\* parent, the same in its six fields.
C5_CrackRecoversParent ==
    (cracks_child_of_base /\ ~ index_is_hardened(trail[1]))
    => (text.err = "" /\ b58decode(text.bin, TRUE) = returned(base))

\* a parent has been recovered from its neutered key and a normal child
C5_Witness ==
    cracks_child_of_base /\ ~ index_is_hardened(trail[1]) /\ text.err = ""

\* a pair of keys that breaks a precondition of crack_prv_key
breaks_precondition(p, c) ==
    \/ Len(p.key) = 0 \/ Len(c.key) = 0
    \/ p.key[1] \notin {2, 3}
    \/ c.key[1] # 0
    \/ c.depth # p.depth + 1
    \/ c.parent_fingerprint # SubSeq(hash160(p.key), 1, 4)
    \/ index_is_hardened(c.index)

\* C6: crack_prv_key rejects every pair of keys that breaks one of its
\* preconditions and returns no text; the child of a hardened index, with
\* the neutered key of its parent, is rejected as a hardened child.
C6_CrackRejects ==
    /\ (op = "crack_prv_key" /\ breaks_precondition(arg.other, arg.xkey))
       => (text.err # "" /\ text.bin = <<>>)
    /\ (cracks_child_of_base /\ index_is_hardened(trail[1]))
       => text.err = "hardened child derivation"

\* the child of a hardened index has been given with its neutered parent
C6_Witness ==
    cracks_child_of_base /\ index_is_hardened(trail[1]) /\ text.err # ""

\* C8: depth monotonicity: a derivation that succeeds adds the length of its
\* path to the depth; one that would end deeper than 255 raises the error of
\* the depth check made before the first step, for any key; one that ends at
\* depth 255 exactly is not refused by that check.
C8_DepthMonotonic ==
    op = "_derive" =>
        /\ out.err = "" => out.val.depth = arg.xkey.depth + Len(arg.der_path)
        /\ arg.xkey.depth + Len(arg.der_path) > 255
           => out.err = "final depth greater than 255"
        /\ arg.xkey.depth + Len(arg.der_path) = 255
           => out.err # "final depth greater than 255"

\* a derivation of one index or more has ended at depth 255
C8_Witness ==
    /\ op = "_derive" /\ out.err = "" /\ Len(arg.der_path) >= 1
    /\ out.val.depth = 255 /\ valid(xkey)

\* the child that the claimed step gives: scalar (q + int(IL)) mod n on 32
\* bytes after a zero byte, and chain code IR, for the digest I = IL || IR
step_gives(q, I, child) ==
    /\ child.key = <<0>> \o to_bytes((q + int_from_bytes_mod(SubSeq(I, 1, 32), ec_n)) % ec_n, 32)
    /\ child.chain_code = SubSeq(I, 33, 64)

\* C10: private CKD step: one index derived from a valid private key of depth
\* under 255, with scalar q and chain code c, gives the scalar (q + int(IL)) mod n and the
\* chain code IR, where IL || IR is HMAC-SHA512 with key c of 0x00 || q || i
\* for a hardened index i and of compress(q*G) || i for a normal one.
C10_PrivateStep ==
    (op = "_derive" /\ Len(arg.der_path) = 1 /\ prv(arg.xkey) /\ arg.xkey.depth < 255) =>
        /\ out.err = ""
        /\ step_gives(
               int_from_bytes_mod(Tail(arg.xkey.key), ec_n),
               hmac_sha512(arg.xkey.chain_code,
                   IF arg.der_path[1][1] >= 32768
                   THEN (<<0>> \o Tail(arg.xkey.key)) \o index_to_bytes(arg.der_path[1])
                   ELSE bytes_from_point(mult(int_from_bytes_mod(Tail(arg.xkey.key), ec_n)))
                            \o index_to_bytes(arg.der_path[1])),
               out.val)

\* a hardened index has been derived from a valid private key
C10_Witness ==
    /\ op = "_derive" /\ Len(arg.der_path) = 1 /\ prv(arg.xkey)
    /\ arg.der_path[1][1] >= 32768 /\ out.err = "" /\ valid(xkey)

(***************************************************************************)
(* The properties of the texts and of the keys decoded from them           *)
(***************************************************************************)
\* C1: round trip: deserialize gives back, field by field, the valid key
\* whose serialize bytes it is given, and b58decode gives back the valid key
\* whose b58encode text it is given.
C1_RoundTrip ==
    /\ (/\ op = "deserialize" /\ valid(arg.xkey)
        /\ text = serialize(arg.xkey, TRUE) /\ arg.data = text.bin)
       => out = returned(arg.xkey)
    /\ (/\ op = "b58decode" /\ arg.from = "b58encode" /\ valid(arg.xkey)
        /\ arg.data = text.bin /\ text = b58encode(arg.xkey, TRUE))
       => out = returned(arg.xkey)

\* the text of a valid key, of an index other than 0, has been decoded
C1_Witness ==
    /\ op = "b58decode" /\ arg.from = "b58encode" /\ valid(arg.xkey)
    /\ arg.data = text.bin /\ text.err = "" /\ out.err = ""
    /\ arg.xkey.index # index_of(0, 0)

\* the state of a key that the construction admits: the lengths and ranges
\* of the fields, the key that fits the version, the fields of a depth 0
well_formed(k) ==
    /\ Len(k.version) = 4
    /\ k.depth \in 0..255
    /\ Len(k.parent_fingerprint) = 4
    /\ k.index[1] \in 0..65535 /\ k.index[2] \in 0..65535
    /\ Len(k.chain_code) = 32
    /\ Len(k.key) = 33
    /\ \/ /\ \E network \in {"mainnet", "testnet"} :
               in_list(k.version, xprvversions_from_network(network))
          /\ k.key[1] = 0
          /\ \E q \in 1..(ec_n - 1) : Tail(k.key) = to_bytes(q, 32)
       \/ /\ \E network \in {"mainnet", "testnet"} :
               in_list(k.version, xpubversions_from_network(network))
          /\ k.key[1] \in {2, 3}
          /\ \E x, y \in 0..(ec_p - 1) :
               /\ Tail(k.key) = to_bytes(x, 32)
               /\ (y * y) % ec_p = (x * x * x + 7) % ec_p
    /\ k.depth = 0 => (k.parent_fingerprint = <<0, 0, 0, 0>> /\ k.index = <<0, 0>>)

\* the text is that of a key in a well formed state
text_of_well_formed(decoding) == decoding.err = "" /\ well_formed(decoding.val)

\* C7: construction-time invariants: a key built or decoded with validation
\* is in a well formed state, a violation raises, and the text returned by
\* rootxprv_from_seed, derive, xpub_from_xprv or crack_prv_key is that of a
\* key in a well formed state.
C7_ConstructionInvariants ==
    /\ (op \in {"BIP32KeyData", "b58decode", "deserialize"} /\ out.err = "")
       => well_formed(out.val)
    /\ (op = "BIP32KeyData" /\ ~ well_formed(arg.xkey)) => out.err # ""
    /\ (op \in {"rootxprv_from_seed", "derive", "xpub_from_xprv", "crack_prv_key"}
        /\ text.err = "")
       => text_of_well_formed(b58decode(text.bin, FALSE))

\* derive has raised on a child that the steps of the derivation gave in a
\* state that is not well formed
C7_Witness ==
    /\ op = "derive" /\ text.err # ""
    /\ _derive(arg.xkey, arg.der_path, <<>>).err = ""
    /\ ~ well_formed(key_fields(_derive(arg.xkey, arg.der_path, <<>>).val))

\* C9: identity path: derive with the empty sequence of indexes returns, for
\* a valid key, the text of that key: the same six fields, the same string.
C9_IdentityPath ==
    (op = "derive" /\ arg.der_path = <<>> /\ valid(arg.xkey)) =>
        /\ text.err = ""
        /\ text = b58encode(arg.xkey, TRUE)
        /\ b58decode(text.bin, TRUE) = returned(arg.xkey)

\* the empty path has been derived from a valid key that is not a root
C9_Witness ==
    /\ op = "derive" /\ arg.der_path = <<>> /\ valid(arg.xkey)
    /\ arg.xkey.depth > 0 /\ text.err = ""

(***************************************************************************)
(* The derived fields of a child and of a neutered key                     *)
(***************************************************************************)
\* the compressed public key of a valid key: the key itself for a public key,
\* the point q*G for a private one
compressed_public_key(k) ==
    IF k.key[1] = 0
    THEN bytes_from_point(mult(int_from_bytes_mod(Tail(k.key), ec_n)))
    ELSE k.key

\* C11: child fingerprint: after every successful derivation of one index,
\* from a private or a public parent, the child's parent_fingerprint is the
\* first 4 bytes of hash160 of the parent's compressed public key and the
\* child's index is the requested index.
C11_ChildFingerprint ==
    (op = "_derive" /\ Len(arg.der_path) = 1 /\ out.err = "") =>
        /\ out.val.parent_fingerprint =
               SubSeq(hash160(compressed_public_key(arg.xkey)), 1, 4)
        /\ out.val.index = arg.der_path[1]

\* a child has been derived from a private parent that is itself a child, so
\* that the parent's fingerprint and its parent_fingerprint field differ
C11_Witness ==
    /\ op = "_derive" /\ Len(arg.der_path) = 1 /\ out.err = ""
    /\ prv(arg.xkey) /\ arg.xkey.depth >= 1
    /\ out.val.parent_fingerprint # arg.xkey.parent_fingerprint
    /\ out.val.index = arg.der_path[1]

\* the public version of the same network and the same script type as the
\* private version v, read from the two tables of the network side by side
public_of(v, w) ==
    \E network \in {"mainnet", "testnet"} :
        \E i \in 1..Len(xprvversions_from_network(network)) :
            /\ xprvversions_from_network(network)[i] = v
            /\ xpubversions_from_network(network)[i] = w

\* C12: neutering is a projection: for every valid private key k,
\* _xpub_from_xprv(k) succeeds, keeps depth, index, parent_fingerprint and
\* chain_code, has the public version of the same network and script type,
\* has the compressed point q*G as its key, and is a valid public key.
C12_NeuterProjection ==
    (op = "_xpub_from_xprv" /\ prv(arg.xkey)) =>
        /\ out.err = ""
        /\ out.val.depth = arg.xkey.depth
        /\ out.val.index = arg.xkey.index
        /\ out.val.parent_fingerprint = arg.xkey.parent_fingerprint
        /\ out.val.chain_code = arg.xkey.chain_code
        /\ public_of(arg.xkey.version, out.val.version)
        /\ out.val.key =
               bytes_from_point(mult(int_from_bytes_mod(Tail(arg.xkey.key), ec_n)))
        /\ pub(out.val)

\* a derived private key whose version is not the first of the table has been
\* neutered
C12_Witness ==
    /\ op = "_xpub_from_xprv" /\ prv(arg.xkey) /\ out.err = ""
    /\ arg.xkey.version = testnet_slip132_p2wpkh_prv
    /\ out.val.version = testnet_slip132_p2wpkh_pub
    /\ arg.xkey.depth >= 1 /\ out.val.depth = arg.xkey.depth

\* C13: _xpub_from_xprv of a key whose key material does not start with 0x00
\* fails and returns no key, the caller keeping the key it had; for a valid
\* key, that is a public key, the error is the not-a-private-key error.
C13_NeuterPublicFails ==
    (op = "_xpub_from_xprv" /\ Len(arg.xkey.key) > 0 /\ arg.xkey.key[1] # 0) =>
        /\ out.err # ""
        /\ out.val = BIP32KeyData
        /\ xkey = arg.xkey
        /\ valid(arg.xkey) => out.err = "not a private key"

\* a valid public key has been given to _xpub_from_xprv
C13_Witness ==
    /\ op = "_xpub_from_xprv" /\ pub(arg.xkey)
    /\ arg.xkey.key[1] \in {2, 3}
    /\ out.err = "not a private key"

(***************************************************************************)
(* The forced version                                                      *)
(***************************************************************************)
\* the versions of the same kind, private or public, as the version v
same_registry(v, w) ==
    IF in_list(v, XPRV_VERSIONS_ALL) THEN in_list(w, XPRV_VERSIONS_ALL)
    ELSE in_list(w, XPUB_VERSIONS_ALL)

\* the outcome forced is the outcome plain with the version replaced by the
\* forced one when that version is of the kind of the derived key's, and a
\* failure when it is not or when the plain derivation fails
forced_as_claimed(plain, forced_version, forced) ==
    IF plain.err = "" /\ same_registry(plain.val.version, forced_version)
    THEN /\ forced.err = ""
         /\ forced.val.version = forced_version
         /\ forced.val.depth = plain.val.depth
         /\ forced.val.parent_fingerprint = plain.val.parent_fingerprint
         /\ forced.val.index = plain.val.index
         /\ forced.val.chain_code = plain.val.chain_code
         /\ forced.val.key = plain.val.key
    ELSE forced.err # ""

\* C14: forced version: _derive(k, p, forced_version) succeeds only if
\* forced_version is in the same table, private or public, as the version of
\* the key derived by _derive(k, p), and then differs from that key in the
\* version only, which is forced_version; a forced version of the other kind
\* or of no table makes it fail.
C14_ForcedVersion ==
    (op = "_derive forced") =>
        forced_as_claimed(_derive(arg.xkey, arg.der_path, <<>>), arg.data, out)

\* a private key has been derived with the private version of the other
\* network forced on it
C14_Witness ==
    /\ op = "_derive forced" /\ out.err = "" /\ Len(arg.der_path) >= 1
    /\ arg.xkey.version = mainnet_bip32_prv
    /\ arg.data = testnet_bip32_prv /\ out.val.version = testnet_bip32_prv

(***************************************************************************)
(* The root key of a seed                                                  *)
(***************************************************************************)
\* the seed and the version given to _rootxprv_from_seed
seed_given == SubSeq(arg.data, 1, Len(arg.data) - 4)
version_given == SubSeq(arg.data, Len(arg.data) - 3, Len(arg.data))

\* the seed has 128 to 512 bits and the version is a known private version
seed_and_version_fit ==
    /\ Len(seed_given) * 8 >= 128
    /\ Len(seed_given) * 8 <= 512
    /\ in_list(version_given, XPRV_VERSIONS_ALL)

\* the root key of the digest I = IL || IR has been returned
root_returned(I) ==
    /\ out.err = ""
    /\ out.val.depth = 0
    /\ out.val.parent_fingerprint = <<0, 0, 0, 0>>
    /\ out.val.index = index_of(0, 0)
    /\ out.val.version = version_given
    /\ out.val.key = <<0>> \o SubSeq(I, 1, 32)
    /\ out.val.chain_code = SubSeq(I, 33, 64)

\* the 32 bytes are a scalar of 1..n-1
scalar_in_range(b) == \E q \in 1..(ec_n - 1) : b = to_bytes(q, 32)

\* C15 as stated: _rootxprv_from_seed fails if the seed is shorter than 128
\* bits or longer than 512 bits or the version is not a known private one,
\* and otherwise returns the root key of HMAC-SHA512("Bitcoin seed", seed).
C15_RootAlwaysReturned ==
    (op = "_rootxprv_from_seed") =>
        IF seed_and_version_fit
        THEN root_returned(hmac_sha512(bitcoin_seed, seed_given))
        ELSE out.err # ""

\* C15: root key from seed: _rootxprv_from_seed fails if the seed is shorter
\* than 128 bits or longer than 512 bits or the version is not a known
\* private one; otherwise, when the left 32 bytes of
\* HMAC-SHA512("Bitcoin seed", seed) are a scalar of 1..n-1, it returns the
\* key of depth 0, parent fingerprint 00000000, index 0, the given version,
\* key 0x00 || left 32 bytes and chain code the right 32 bytes, and when they
\* are 0 or at least n it fails.
C15_RootFromSeed ==
    (op = "_rootxprv_from_seed") =>
        IF /\ seed_and_version_fit
           /\ scalar_in_range(SubSeq(hmac_sha512(bitcoin_seed, seed_given), 1, 32))
        THEN root_returned(hmac_sha512(bitcoin_seed, seed_given))
        ELSE out.err # "" /\ out.val = BIP32KeyData

\* a root key has been returned for a seed of 128 bits and a SLIP-132 version
C15_Witness ==
    /\ op = "_rootxprv_from_seed" /\ out.err = ""
    /\ Len(seed_given) = 16 /\ version_given = testnet_slip132_p2wpkh_prv
    /\ out.val.depth = 0 /\ xkey = out.val

(***************************************************************************)
(* The master key of an Electrum mnemonic                                  *)
(***************************************************************************)
\* the plain and the P2WPKH private version of the network
plain_private_version(network) ==
    IF network = "mainnet" THEN mainnet_bip32_prv ELSE testnet_bip32_prv
p2wpkh_private_version(network) ==
    IF network = "mainnet" THEN mainnet_slip132_p2wpkh_prv
    ELSE testnet_slip132_p2wpkh_prv

\* the result is the child at index 0x80000000 of the root, if there is one
hardened_child_of(root, result) ==
    IF root.err # "" THEN result.err # ""
    ELSE /\ result.err = ""
         /\ result.val.depth = 1
         /\ result.val.index = index_of(32768, 0)
         /\ result.val.parent_fingerprint =
                SubSeq(hash160(compressed_public_key(root.val)), 1, 4)
         /\ result.val.version = root.val.version
         /\ key_fields(result.val) =
                key_fields(_derive(root.val, <<index_of(32768, 0)>>, <<>>).val)

\* C16: Electrum master key: for a mnemonic reported as "standard" the result
\* is the root of the seed, of depth 0, with the plain private version of the
\* network; for "segwit" it is the root of the seed with the P2WPKH private
\* version of the network derived once at the hardened index 0x80000000
\* (depth 1, that index, the fingerprint of the root); any other version
\* reported makes the call fail.
C16_ElectrumMaster ==
    (op = "_mxprv_from_electrum_mnemonic") =>
        IF arg.version = "standard"
        THEN /\ out = _rootxprv_from_seed(arg.data, plain_private_version(arg.network))
             /\ out.err = "" =>
                    /\ out.val.depth = 0
                    /\ out.val.version = plain_private_version(arg.network)
        ELSE IF arg.version = "segwit"
        THEN hardened_child_of(
                 _rootxprv_from_seed(arg.data, p2wpkh_private_version(arg.network)),
                 out)
        ELSE out.err # ""

\* a segwit mnemonic of the test network has given a key of depth 1
C16_Witness ==
    /\ op = "_mxprv_from_electrum_mnemonic" /\ arg.version = "segwit"
    /\ arg.network = "testnet" /\ out.err = ""
    /\ out.val.depth = 1 /\ out.val.version = testnet_slip132_p2wpkh_prv

(***************************************************************************)
(* The binary layout                                                       *)
(***************************************************************************)
\* version(4) || depth(1) || parent_fingerprint(4) || index(4, big-endian) ||
\* chain_code(32) || key(33), for a key whose depth and index fit
layout(k) ==
    k.version \o <<k.depth>> \o k.parent_fingerprint
        \o <<k.index[1] \div 256, k.index[1] % 256,
             k.index[2] \div 256, k.index[2] % 256>>
        \o k.chain_code \o k.key

\* depth fits one byte and index four
fits(k) ==
    /\ k.depth >= 0 /\ k.depth <= 255
    /\ k.index[1] >= 0 /\ k.index[1] <= 65535
    /\ k.index[2] >= 0 /\ k.index[2] <= 65535

\* C17: binary layout: serialize returns, for every valid key, exactly 78
\* bytes that are version || depth || parent_fingerprint || index (big-endian)
\* || chain_code || key; it raises for a key that is not valid, unless it is
\* called with assert_valid=False, and then it returns the same concatenation
\* of the fields as they are whenever depth and index fit their bytes.
C17_BinaryLayout ==
    (op \in {"serialize", "serialize unchecked"}) =>
        /\ valid(arg.xkey) =>
               /\ text.err = ""
               /\ Len(text.bin) = 78
               /\ text.bin = layout(arg.xkey)
        /\ (op = "serialize" /\ ~ valid(arg.xkey)) => text.err # ""
        /\ (op = "serialize unchecked" /\ fits(arg.xkey)) =>
               text.err = "" /\ text.bin = layout(arg.xkey)

\* a valid key with a hardened index has been serialized
C17_Witness ==
    /\ op = "serialize" /\ valid(arg.xkey) /\ arg.xkey.index[1] >= 32768
    /\ text.err = "" /\ Len(text.bin) = 78
    /\ SubSeq(text.bin, 10, 13) = <<128, 0, 0, 0>>

\* a key that is not valid has been serialized with assert_valid=False
C17_Unchecked ==
    /\ op = "serialize unchecked" /\ ~ valid(arg.xkey)
    /\ text.err = "" /\ Len(text.bin) # 78

(***************************************************************************)
(* Truncated and overlong inputs of the decodings                          *)
(***************************************************************************)
\* C18 as stated: deserialize fails for every input of fewer than 78 bytes,
\* whatever assert_valid is.
C18_TruncatedNeverDecoded ==
    (op \in {"deserialize", "deserialize unchecked"} /\ Len(arg.data) < 78) =>
        out.err # ""

\* C18: deserialize with validation, its default, fails for every input of
\* fewer than 78 bytes and returns no key, the caller keeping the key it had;
\* with assert_valid=False it returns a key whose last fields are short.
C18_TruncatedRejected ==
    /\ (op = "deserialize" /\ Len(arg.data) < 78) =>
           /\ out.err # ""
           /\ out.val = BIP32KeyData
           /\ xkey = arg.xkey
    /\ (op = "deserialize unchecked" /\ Len(arg.data) < 78) =>
           /\ out.err = ""
           /\ Len(out.val.key) < 33
           /\ ~ valid(out.val)

\* the 77 first bytes of the serialization of a valid key have been given to
\* deserialize with validation, which failed
C18_Witness ==
    /\ op = "deserialize" /\ Len(arg.data) = 77 /\ valid(arg.xkey)
    /\ arg.data = SubSeq(text.bin, 1, 77)
    /\ out.err # ""

\* the payload of the text given to b58decode, blanks trimmed, when the text
\* is Base58Check
payload_given == b58decode_text(strip(arg.data))

\* C19 as stated: b58decode never returns a key for a text whose payload is
\* not of 78 bytes, whatever assert_valid is.
C19_PayloadNeverDecoded ==
    (/\ op \in {"b58decode", "b58decode unchecked"} /\ arg.from = "caller"
     /\ payload_given.err = "" /\ Len(payload_given.bin) # 78) =>
        out.err # ""

\* C19: b58decode with validation, its default, rejects every Base58Check
\* text whose payload, after the blanks around the text are trimmed, is
\* shorter or longer than 78 bytes, and returns no key for it, while it
\* decodes the text of a 78-byte serialization between blanks; with
\* assert_valid=False the length is not looked at and a key is returned.
C19_PayloadLength ==
    (arg.from = "caller" /\ payload_given.err = "") =>
        /\ (op = "b58decode" /\ Len(payload_given.bin) # 78) =>
               /\ out.err # ""
               /\ out.val = BIP32KeyData
               /\ xkey = BIP32KeyData
        /\ (op = "b58decode" /\ Len(payload_given.bin) = 78) =>
               /\ out.err = ""
               /\ serialize(out.val, TRUE).bin = payload_given.bin
        /\ (op = "b58decode unchecked") => out.err = ""

\* a text between blanks whose payload has 79 bytes has been rejected
C19_Witness ==
    /\ op = "b58decode" /\ arg.from = "caller"
    /\ arg.data[1] = 58
    /\ payload_given.err = "" /\ Len(payload_given.bin) = 79
    /\ out.err = "invalid decoded length"

(***************************************************************************)
(* The fingerprint of a key of depth 0                                     *)
(***************************************************************************)
\* C20 as stated: for every valid key, parent_fingerprint is all-zero if and
\* only if depth is 0.
C20_ZeroFingerprintIffRoot ==
    valid(xkey) => (xkey.parent_fingerprint = <<0, 0, 0, 0>> <=> xkey.depth = 0)

\* C20: every valid key of depth 0 has the all-zero parent_fingerprint and
\* the index 0, and the constructor rejects a key of depth 0 that has not;
\* nothing is required of the fingerprint of a key of depth above 0.
C20_RootFingerprint ==
    /\ (valid(xkey) /\ xkey.depth = 0) =>
           /\ xkey.parent_fingerprint = <<0, 0, 0, 0>>
           /\ xkey.index = index_of(0, 0)
    /\ (/\ op = "BIP32KeyData" /\ arg.xkey.depth = 0
        /\ \/ arg.xkey.parent_fingerprint # <<0, 0, 0, 0>>
           \/ arg.xkey.index # index_of(0, 0)) =>
           out.err # ""

\* the caller holds a valid root key
C20_Witness ==
    /\ op = "_rootxprv_from_seed" /\ out.err = "" /\ valid(xkey)
    /\ xkey.depth = 0 /\ xkey.parent_fingerprint = <<0, 0, 0, 0>>
    /\ xkey.index = index_of(0, 0)

(***************************************************************************)
(* The objects passed to the functions                                     *)
(***************************************************************************)
\* C21: inputs are never mutated: when _derive, _xpub_from_xprv or
\* crack_prv_key ends, by a return or by a raise part-way, every field of
\* each BIP32KeyData it was passed is what it was before the call.
C21_InputsNotMutated ==
    (op \in {"_derive", "_derive forced", "_xpub_from_xprv", "crack_prv_key",
             "_derive_from_account", "_derive_from_account any branch"}) =>
        /\ arg.xkey_left = arg.xkey
        /\ arg.other_left = arg.other

\* a derivation from a valid public key has failed at the hardened second
\* index of its path, after a first step was made on the working object
C21_Witness ==
    /\ op = "_derive" /\ pub(arg.xkey) /\ Len(arg.der_path) = 2
    /\ arg.der_path[1][1] < 32768 /\ arg.der_path[2][1] >= 32768
    /\ out.err = "invalid hardened derivation from public key"
    /\ arg.xkey_left = arg.xkey /\ xkey = arg.xkey

(***************************************************************************)
(* No retry                                                                *)
(***************************************************************************)
\* the left half of the digest of the step from the valid private key k at
\* the index i, as a number modulo n, and whether it is n or more
left_half(k, i) ==
    SubSeq(hmac_sha512(k.chain_code,
               IF i[1] >= 32768 THEN k.key \o index_to_bytes(i)
               ELSE compressed_public_key(k) \o index_to_bytes(i)), 1, 32)
left_half_too_large(k, i) == ~ bytes_less(left_half(k, i), to_bytes(ec_n, 32))

\* C22: no retry: a key returned by _derive for a path of one index or more
\* has the last index of the path as its index and the depth of the key
\* passed plus the length of the path, one step per index; a step whose
\* left half IL is n or more, or whose child scalar is zero, is made at the
\* requested index like any other.
C22_NoRetry ==
    (op = "_derive" /\ out.err = "" /\ Len(arg.der_path) >= 1) =>
        /\ out.val.index = arg.der_path[Len(arg.der_path)]
        /\ out.val.depth = arg.xkey.depth + Len(arg.der_path)
        /\ (Len(arg.der_path) = 1 /\ prv(arg.xkey)) =>
               out.val.key = <<0>> \o to_bytes(
                   (int_from_bytes_mod(Tail(arg.xkey.key), ec_n)
                        + int_from_bytes_mod(left_half(arg.xkey, arg.der_path[1]), ec_n))
                       % ec_n, 32)

\* a step from a valid private key has given the zero scalar and the key was
\* returned with the requested index
C22_Witness ==
    /\ op = "_derive" /\ out.err = "" /\ Len(arg.der_path) = 1 /\ prv(arg.xkey)
    /\ out.val.key = <<0>> \o zeros(32)
    /\ out.val.index = arg.der_path[1]

\* a step from a valid private key whose left half is n or more has been made
C22_LargeLeftHalf ==
    /\ op = "_derive" /\ out.err = "" /\ Len(arg.der_path) = 1 /\ prv(arg.xkey)
    /\ left_half_too_large(arg.xkey, arg.der_path[1])
    /\ out.val.index = arg.der_path[1]

(***************************************************************************)
(* wifaddress.py: Wallet Import Format and addresses.  base58.encode and   *)
(* base58.decode are the Base58Check conversions above; utils.h160 is      *)
(* hash160.                                                                *)
(***************************************************************************)
\* the prefixes of the networks, in the order of _NETWORKS
_WIF_PREFIXES == <<<<128>>, <<239>>, <<239>>>>
_P2PKH_PREFIXES == <<<<0>>, <<111>>, <<111>>>>
_P2SH_PREFIXES == <<<<5>>, <<196>>, <<196>>>>

\* 0 < int.from_bytes(b, 'big') < ec.n
int_in_range(b) == \E q \in 1..(ec_n - 1) : b = to_bytes(q, Len(b))

\* a private key given as an int or as bytes
prvkey_int(q) == [kind |-> "int", val |-> q, bin |-> <<>>]
prvkey_bytes(b) == [kind |-> "bytes", val |-> 0, bin |-> b]

\* a payload without the byte that tells a compressed key
wif_payload_bare(prefix, key, compressed) == prefix \o key

\* wif_from_prvkey: the payload, the key being in range
wif_payload(prefix, key, compressed) ==
    prefix \o key \o (IF compressed THEN <<1>> ELSE <<>>)

\* wif_from_prvkey(prvkey, compressed, network)
wif_from_prvkey(prvkey, compressed, network) ==
    IF ~ in_list(network, _NETWORKS) THEN raised_bytes("ValueError")
    ELSE IF prvkey.kind = "int"
    THEN IF to_bytes_overflows(prvkey.val, ec_nsize)
         THEN raised_bytes("OverflowError")
         ELSE IF ~ (0 < prvkey.val /\ prvkey.val < ec_n)
              THEN raised_bytes("private key not in (0, ec.n)")
         ELSE returned_bytes(b58encode_bytes(
                  wif_payload(_WIF_PREFIXES[list_index(network, _NETWORKS)],
                              to_bytes(prvkey.val, ec_nsize), compressed)))
    ELSE IF ~ int_in_range(prvkey.bin)
         THEN raised_bytes("private key not in (0, ec.n)")
    ELSE returned_bytes(b58encode_bytes(
             wif_payload(_WIF_PREFIXES[list_index(network, _NETWORKS)],
                         prvkey.bin, compressed)))

\* the outcome of prvkey_from_wif: the tuple (prv, compressed, network)
returned_prvkey(prvkey, compressed, network) ==
    [err |-> "", val |-> [prv |-> prvkey, compressed |-> compressed, network |-> network]]
raised_prvkey(msg) ==
    [err |-> msg, val |-> [prv |-> 0, compressed |-> FALSE, network |-> ""]]

\* prvkey_from_wif: from the payload on
prvkey_from_payload(payload) ==
    IF ~ in_list(slice(payload, 1, 1), _WIF_PREFIXES) THEN raised_prvkey("ValueError")
    ELSE IF Len(payload) = ec_nsize + 2
    THEN IF payload[Len(payload)] # 1
         THEN raised_prvkey("Not a compressed WIF: missing trailing 0x01")
         ELSE IF ~ int_in_range(SubSeq(payload, 2, Len(payload) - 1))
              THEN raised_prvkey("Not a WIF: private key not in [1, n-1]")
         ELSE returned_prvkey(
                  int_from_bytes_mod(SubSeq(payload, 2, Len(payload) - 1), ec_n),
                  TRUE,
                  _NETWORKS[list_index(slice(payload, 1, 1), _WIF_PREFIXES)])
    ELSE IF Len(payload) = ec_nsize + 1
    THEN IF ~ int_in_range(SubSeq(payload, 2, Len(payload)))
         THEN raised_prvkey("Not a WIF: private key not in [1, n-1]")
         ELSE returned_prvkey(
                  int_from_bytes_mod(SubSeq(payload, 2, Len(payload)), ec_n),
                  FALSE,
                  _NETWORKS[list_index(slice(payload, 1, 1), _WIF_PREFIXES)])
    ELSE raised_prvkey("Not a WIF: wrong size")

prvkey_from_decoding(decoding) ==
    IF decoding.err # "" THEN raised_prvkey(decoding.err)
    ELSE prvkey_from_payload(decoding.bin)

\* prvkey_from_wif(wif), wif a str
prvkey_from_wif(wif) == prvkey_from_decoding(b58decode_text(strip(wif)))


\* base58.decode(v, output_size): the payload, which must have that size
b58decode_sized(t, output_size) ==
    IF b58decode_text(t).err # "" THEN b58decode_text(t)
    ELSE IF Len(b58decode_text(t).bin) # output_size
         THEN raised_bytes("invalid decoded size")
    ELSE b58decode_text(t)

\* the address of a hash under the prefix of a network
address_of(prefixes, h, network) ==
    IF ~ in_list(network, _NETWORKS) THEN raised_bytes("ValueError")
    ELSE returned_bytes(b58encode_bytes(
             prefixes[list_index(network, _NETWORKS)] \o h))

\* p2pkh_address(pubkey, network)
p2pkh_address(pubkey, network) == address_of(_P2PKH_PREFIXES, hash160(pubkey), network)

\* p2sh_address(redeem_script, network)
p2sh_address(redeem_script, network) ==
    address_of(_P2SH_PREFIXES, hash160(redeem_script), network)

\* the network of a prefix, as the decoders look it up: the first network
\* of the list that has the prefix
network_of_prefix(prefix, prefixes) == _NETWORKS[list_index(prefix, prefixes)]

\* the hash of an address, from its payload on
h160_from_payload(decoding, prefixes, network) ==
    IF decoding.err # "" THEN decoding
    ELSE IF ~ in_list(slice(decoding.bin, 1, 1), prefixes)
         THEN raised_bytes("ValueError")
    ELSE IF network_of_prefix(slice(decoding.bin, 1, 1), prefixes) # network
         THEN raised_bytes("address for a network other than the given one")
    ELSE returned_bytes(SubSeq(decoding.bin, 2, Len(decoding.bin)))

\* h160_from_p2pkh_address(address, network), address a str
h160_from_p2pkh_address(address, network) ==
    h160_from_payload(b58decode_sized(strip(address), 21), _P2PKH_PREFIXES, network)

\* h160_from_p2sh_address(address, network), address a str
h160_from_p2sh_address(address, network) ==
    h160_from_payload(b58decode_sized(strip(address), 21), _P2SH_PREFIXES, network)

(***************************************************************************)
(* The calls of wifaddress.py: a caller encodes a private key or a hash    *)
(* and decodes what it got, or decodes a text it got from elsewhere.       *)
(***************************************************************************)
\* the private keys the callers give: as ints, and as bytes of the size of
\* the order and of one byte less
PrvKeys ==
    {prvkey_int(q) : q \in {-1, 0, 1, 5, 17, ec_n - 1, ec_n}}
    \cup {prvkey_bytes(to_bytes(5, ec_nsize)), prvkey_bytes(to_bytes(ec_n, ec_nsize)),
          prvkey_bytes(to_bytes(5, ec_nsize - 1))}

\* the texts that are no WIF: an unknown prefix, a last byte that is not
\* 0x01, a size too large and too small, a key that is the order or zero
ForeignWifs ==
    {b58encode_bytes(p) : p \in
        {<<129>> \o to_bytes(5, ec_nsize) \o <<1>>,
         <<128>> \o to_bytes(5, ec_nsize) \o <<0>>,
         <<128>> \o to_bytes(5, ec_nsize) \o <<1, 1>>,
         <<128>> \o to_bytes(5, ec_nsize - 1),
         <<128>> \o to_bytes(ec_n, ec_nsize) \o <<1>>,
         <<239>> \o to_bytes(0, ec_nsize),
         <<>>}}

\* the public keys and redeem scripts the callers give
Hashed == {bytes_from_point(ec_G), <<81, 33, 2, 81, 174>>, <<>>}

\* the arguments of a call of wifaddress.py
wallet_args(prvkey, compressed, network, data, from) ==
    [prvkey |-> prvkey, compressed |-> compressed, network |-> network,
     data |-> data, from |-> from, decoded |-> <<>>]

wif_from_prvkey_call ==
    /\ op = "none"
    /\ \E prvkey \in PrvKeys, compressed \in BOOLEAN, i \in 1..Len(_NETWORKS) :
           /\ arg' = wallet_args(prvkey, compressed, _NETWORKS[i], <<>>, "")
           /\ text' = wif_from_prvkey(prvkey, compressed, _NETWORKS[i])
    /\ op' = "wif_from_prvkey"
    /\ out' = no_key
    /\ UNCHANGED <<xkey, base, trail>>

prvkey_from_wif_call ==
    /\ \/ /\ op = "wif_from_prvkey"
          /\ text.err = ""
          /\ \E wif \in {text.bin, <<58>> \o text.bin \o <<58, 58>>} :
                 /\ arg' = [arg EXCEPT !.data = wif, !.from = op]
                 /\ out' = prvkey_from_wif(wif)
       \/ /\ op = "none"
          /\ \E wif \in ForeignWifs :
                 /\ arg' = wallet_args(prvkey_int(0), FALSE, "", wif, "caller")
                 /\ out' = prvkey_from_wif(wif)
    /\ op' = "prvkey_from_wif"
    /\ text' = no_text
    /\ UNCHANGED <<xkey, base, trail>>

p2pkh_address_call ==
    /\ op = "none"
    /\ \E pubkey \in Hashed, i \in 1..Len(_NETWORKS) :
           /\ arg' = wallet_args(prvkey_int(0), FALSE, _NETWORKS[i], pubkey, "")
           /\ text' = p2pkh_address(pubkey, _NETWORKS[i])
    /\ op' = "p2pkh_address"
    /\ out' = no_key
    /\ UNCHANGED <<xkey, base, trail>>

p2sh_address_call ==
    /\ op = "none"
    /\ \E redeem_script \in Hashed, i \in 1..Len(_NETWORKS) :
           /\ arg' = wallet_args(prvkey_int(0), FALSE, _NETWORKS[i], redeem_script, "")
           /\ text' = p2sh_address(redeem_script, _NETWORKS[i])
    /\ op' = "p2sh_address"
    /\ out' = no_key
    /\ UNCHANGED <<xkey, base, trail>>

\* the address is decoded for any network; arg keeps what was encoded and
\* for which network, out.val names the network of the decoding
h160_from_p2pkh_address_call ==
    /\ op \in {"p2pkh_address", "p2sh_address"}
    /\ text.err = ""
    /\ \E address \in {text.bin, <<58>> \o text.bin \o <<58>>, Tail(text.bin)},
          i \in 1..Len(_NETWORKS) :
           /\ arg' = [arg EXCEPT !.from = op, !.decoded = address]
           /\ out' = [err |-> "", val |-> [network |-> _NETWORKS[i]]]
           /\ text' = h160_from_p2pkh_address(address, _NETWORKS[i])
    /\ op' = "h160_from_p2pkh_address"
    /\ UNCHANGED <<xkey, base, trail>>

h160_from_p2sh_address_call ==
    /\ op \in {"p2pkh_address", "p2sh_address"}
    /\ text.err = ""
    /\ \E address \in {text.bin, <<58>> \o text.bin \o <<58>>, Tail(text.bin)},
          i \in 1..Len(_NETWORKS) :
           /\ arg' = [arg EXCEPT !.from = op, !.decoded = address]
           /\ out' = [err |-> "", val |-> [network |-> _NETWORKS[i]]]
           /\ text' = h160_from_p2sh_address(address, _NETWORKS[i])
    /\ op' = "h160_from_p2sh_address"
    /\ UNCHANGED <<xkey, base, trail>>

WalletNext ==
    \/ next_call
    \/ wif_from_prvkey_call
    \/ prvkey_from_wif_call
    \/ p2pkh_address_call
    \/ p2sh_address_call
    \/ h160_from_p2pkh_address_call
    \/ h160_from_p2sh_address_call

WalletSpec == Init /\ [][WalletNext]_vars


(***************************************************************************)
(* The properties of wifaddress.py                                         *)
(***************************************************************************)
\* the private key a caller gave is a number, or bytes of the size of the
\* order
key_of_size(prvkey) == prvkey.kind = "int" \/ Len(prvkey.bin) = ec_nsize

\* the number a caller gave as a private key is in (0, n)
key_in_range(prvkey) ==
    IF prvkey.kind = "int" THEN 0 < prvkey.val /\ prvkey.val < ec_n
    ELSE int_in_range(prvkey.bin)

\* the number of a private key that is in range
key_number(prvkey) ==
    IF prvkey.kind = "int" THEN prvkey.val ELSE int_from_bytes_mod(prvkey.bin, ec_n)

\* what is wrong with the payload of a text that is no WIF
not_a_wif(payload) ==
    \/ ~ in_list(slice(payload, 1, 1), _WIF_PREFIXES)
    \/ Len(payload) \notin {ec_nsize + 1, ec_nsize + 2}
    \/ Len(payload) = ec_nsize + 2 /\ payload[Len(payload)] # 1
    \/ ~ int_in_range(SubSeq(payload, 2, ec_nsize + 1))

\* C23: a private key in (0, n) is encoded for every compressed flag and
\* network and decoded again to the same key and the same flag, blanks
\* around the text or not; a key outside (0, n) is not encoded; a text
\* whose payload has an unknown prefix, a wrong size, a last byte other
\* than 0x01 where the compressed flag goes, or a key outside (0, n) is not
\* decoded.
C23_WifRoundTrip ==
    /\ op = "wif_from_prvkey" /\ key_of_size(arg.prvkey) =>
           (text.err = "" <=> key_in_range(arg.prvkey))
    /\ op = "prvkey_from_wif" /\ arg.from = "wif_from_prvkey"
          /\ key_of_size(arg.prvkey) =>
           /\ out.err = ""
           /\ out.val.prv = key_number(arg.prvkey)
           /\ out.val.compressed = arg.compressed
    /\ op = "prvkey_from_wif" /\ arg.from = "caller"
          /\ b58decode_text(strip(arg.data)).err = ""
          /\ not_a_wif(b58decode_text(strip(arg.data)).bin) =>
           out.err # ""

\* a compressed key of the regtest network was encoded, and decoded from a
\* text with blanks around it
C23_Witness ==
    /\ op = "prvkey_from_wif"
    /\ arg.from = "wif_from_prvkey"
    /\ arg.prvkey = prvkey_int(ec_n - 1)
    /\ arg.compressed
    /\ arg.network = "regtest"
    /\ arg.data[1] = 58
    /\ out.err = ""
    /\ out.val.prv = ec_n - 1

\* a text with a last byte other than 0x01 was refused
C23_Refused ==
    /\ op = "prvkey_from_wif"
    /\ arg.from = "caller"
    /\ out.err = "Not a compressed WIF: missing trailing 0x01"

\* bytes one short of the size of the order were encoded as a compressed
\* key, and the text is decoded to another key or not at all
C23_ShortBytes ==
    /\ op = "prvkey_from_wif"
    /\ arg.from = "wif_from_prvkey"
    /\ ~ key_of_size(arg.prvkey)
    /\ arg.compressed
    /\ (out.err # "" \/ out.val.compressed = FALSE)


\* the address a caller got was decoded as it is or with blanks around it
whole_address(address, encoding) ==
    encoding.err = "" /\ strip(address) = encoding.bin

\* C24: for each of the networks mainnet, testnet and regtest, the p2pkh
\* address of a public key decodes for that network to the hash of the
\* key, and the p2sh address of a redeem script to the hash of the script;
\* an address decoded for a network other than its own is refused.
C24_AddressRoundTrip ==
    /\ op = "h160_from_p2pkh_address" /\ arg.from = "p2pkh_address"
          /\ whole_address(arg.decoded, p2pkh_address(arg.data, arg.network)) =>
           IF out.val.network = arg.network
           THEN text.err = "" /\ text.bin = hash160(arg.data)
           ELSE text.err # ""
    /\ op = "h160_from_p2sh_address" /\ arg.from = "p2sh_address"
          /\ whole_address(arg.decoded, p2sh_address(arg.data, arg.network)) =>
           IF out.val.network = arg.network
           THEN text.err = "" /\ text.bin = hash160(arg.data)
           ELSE text.err # ""

\* what holds of the two networks that do not share their prefixes with a
\* network listed before them
C24_MainnetTestnet ==
    /\ op = "h160_from_p2pkh_address" /\ arg.from = "p2pkh_address"
          /\ whole_address(arg.decoded, p2pkh_address(arg.data, arg.network))
          /\ arg.network # "regtest" /\ out.val.network # "regtest" =>
           IF out.val.network = arg.network
           THEN text.err = "" /\ text.bin = hash160(arg.data)
           ELSE text.err # ""
    /\ op = "h160_from_p2sh_address" /\ arg.from = "p2sh_address"
          /\ whole_address(arg.decoded, p2sh_address(arg.data, arg.network))
          /\ arg.network # "regtest" /\ out.val.network # "regtest" =>
           IF out.val.network = arg.network
           THEN text.err = "" /\ text.bin = hash160(arg.data)
           ELSE text.err # ""

\* a regtest address was decoded for regtest, and refused
C24_RegtestRefused ==
    /\ op = "h160_from_p2pkh_address"
    /\ arg.from = "p2pkh_address"
    /\ arg.decoded = p2pkh_address(arg.data, "regtest").bin
    /\ arg.network = "regtest"
    /\ out.val.network = "regtest"
    /\ text.err # ""

\* a regtest address was decoded for testnet, and its hash returned
C24_RegtestAsTestnet ==
    /\ op = "h160_from_p2sh_address"
    /\ arg.from = "p2sh_address"
    /\ arg.network = "regtest"
    /\ out.val.network = "testnet"
    /\ text.err = ""


(***************************************************************************)
(* The properties of the functions of bip32.py, continued                  *)
(***************************************************************************)
\* C25: whenever crack_prv_key returns the text of a key, the scalar of
\* that key is the private key of the parent it was given: neutering the
\* key returned gives the 33 bytes of the key of parent_xpub.
C25_CrackedBelongsToParent ==
    op = "crack_prv_key" /\ text.err = "" =>
        /\ _xpub_from_xprv(crack_parent(arg.other, arg.xkey).val).err = ""
        /\ _xpub_from_xprv(crack_parent(arg.other, arg.xkey).val).val.key = arg.other.key


\* crack_prv_key was given a parent with the key of the parent of the
\* child and another chain code, and returned the text of a key
C25_ForeignChainCracked ==
    /\ op = "crack_prv_key"
    /\ text.err = ""
    /\ prv(base) /\ Len(trail) = 1
    /\ arg.xkey = xkey
    /\ arg.other = rechained(neutered(base))
    /\ arg.other.key = neutered(base).key
    /\ _xpub_from_xprv(crack_parent(arg.other, arg.xkey).val).val.key # arg.other.key


\* _derive(xkey, der_path) gets as far as its loop
derive_starts(from, der_path) ==
    /\ ~ indexes_from_bip32_path_raises(der_path)
    /\ ~ depth_overflows(from.depth, Len(der_path))
    /\ Len(from.key) > 0
    /\ ~ (from.key[1] # 0 /\ point_from_octets_raises(from.key))
    /\ assert_valid(from) = ""

\* the cache of a working state is the one of its key
cache_of_key(state) ==
    IF state.key[1] = 0
    THEN state.key = <<0>> \o to_bytes(state.q, 32) /\ state.Q = INF
    ELSE /\ ~ point_from_octets_raises(state.key)
         /\ state.Q = point_from_octets(state.key)
         /\ state.q = 0

\* the working state of _derive(xkey, der_path) after its first k steps
after_steps(from, der_path, k) == ckd_loop(_derive_state(from), der_path, k)

\* C26: when the loop of a derive call starts and after each of its steps,
\* a private working state caches as q the number of key[1:33] and as Q
\* the point at infinity, a public one caches as Q the point of its key and
\* as q zero; the working state stays private or public as the key given,
\* under the version of that key.
C26_CacheConsistent ==
    op \in {"_derive", "_derive forced"} /\ derive_starts(arg.xkey, arg.der_path) =>
        \A k \in 0..Len(arg.der_path) :
            after_steps(arg.xkey, arg.der_path, k).err = "" =>
                /\ cache_of_key(after_steps(arg.xkey, arg.der_path, k).val)
                /\ after_steps(arg.xkey, arg.der_path, k).val.version = arg.xkey.version
                /\ (after_steps(arg.xkey, arg.der_path, k).val.key[1] = 0)
                       <=> (arg.xkey.key[1] = 0)

\* two steps were made from a public key, to another point at each step
C26_Witness ==
    /\ op = "_derive"
    /\ Len(arg.der_path) = 2
    /\ out.err = ""
    /\ arg.xkey.key[1] # 0
    /\ after_steps(arg.xkey, arg.der_path, 1).val.Q # _derive_state(arg.xkey).Q
    /\ out.val.Q # after_steps(arg.xkey, arg.der_path, 1).val.Q
    /\ out.val.Q = point_from_octets(out.val.key)

\* two steps were made from a private key
C26_PrivateSteps ==
    /\ op = "_derive"
    /\ Len(arg.der_path) = 2
    /\ out.err = ""
    /\ arg.xkey.key[1] = 0
    /\ out.val.q # _derive_state(arg.xkey).q
    /\ out.val.Q = INF


\* C27: a key that breaks an invariant, made with the validation bypassed,
\* is refused by its next use with the default arguments: serialize,
\* b58encode, derive and xpub_from_xprv of it fail, and crack_prv_key fails
\* with it as the parent or as the child.
C27_BypassedCheckedOnUse ==
    /\ op \in {"serialize", "b58encode", "derive", "xpub_from_xprv"}
          /\ assert_valid(arg.xkey) # "" =>
           text.err # ""
    /\ op = "crack_prv_key"
          /\ (assert_valid(arg.xkey) # "" \/ assert_valid(arg.other) # "") =>
           text.err # ""

\* what holds of serialize, b58encode and derive
C27_ValidatingCalls ==
    op \in {"serialize", "b58encode", "derive"} /\ assert_valid(arg.xkey) # "" =>
        text.err # ""

\* a private key with a key field of 32 bytes was neutered, and the text of
\* a valid public key returned
C27_ShortKeyNeutered ==
    /\ op = "xpub_from_xprv"
    /\ assert_valid(arg.xkey) # ""
    /\ Len(arg.xkey.key) = 32
    /\ text.err = ""
    /\ b58decode(text.bin, TRUE).err = ""


\* C28 as stated: every byte string that deserialize accepts with the
\* default validation is the serialization of the key it returns.
C28_DeserializeInverse ==
    op = "deserialize" /\ out.err = "" =>
        serialize(out.val, TRUE) = returned_bytes(arg.data)

\* C28: deserialize reads the first 78 bytes of what it is given and leaves
\* the rest unread: the serialization of the key it returns with the
\* default validation is the first 78 bytes of its input, and is the input
\* exactly when the input has 78 bytes.
C28_InverseOnPrefix ==
    op = "deserialize" /\ out.err = "" =>
        /\ serialize(out.val, TRUE) = returned_bytes(slice(arg.data, 1, 78))
        /\ Len(arg.data) >= 78
        /\ (serialize(out.val, TRUE).bin = arg.data <=> Len(arg.data) = 78)

\* bytes with one byte after the 78 of a key were accepted
C28_Witness ==
    /\ op = "deserialize"
    /\ out.err = ""
    /\ Len(arg.data) = 79
    /\ serialize(out.val, TRUE).bin = SubSeq(arg.data, 1, 78)


\* the calls of _derive_from_account, with branches_0_1_only or without
account_calls == {"_derive_from_account", "_derive_from_account any branch"}

\* the arguments of the call refuse the branch or the address index
account_refused ==
    \/ index_is_hardened(arg.der_path[1])
    \/ op = "_derive_from_account"
          /\ arg.der_path[1] \notin {index_of(0, 0), index_of(0, 1)}
    \/ index_is_hardened(arg.der_path[2])

\* C29: the derivation from an account key fails with a warning when the
\* index of the key is not hardened; it fails when the branch is hardened,
\* when branches_0_1_only holds and the branch is neither 0 nor 1, or when
\* the address index is hardened; otherwise it is the derivation of the
\* path of the branch and the address index, a key two levels below the
\* account key with the address index as its index.
C29_AccountDerivation ==
    op \in account_calls =>
        IF ~ is_hardened(arg.xkey)
        THEN out.err = "UserWarning: invalid public derivation at account level"
        ELSE IF account_refused
             THEN /\ out.err # ""
                  /\ out.err # "UserWarning: invalid public derivation at account level"
        ELSE /\ out = _derive(arg.xkey, arg.der_path, <<>>)
             /\ out.err = "" =>
                    /\ out.val.depth = arg.xkey.depth + 2
                    /\ out.val.index = arg.der_path[2]

\* the address 1 of the branch 2 was derived from an account key, the
\* branches not being held to 0 and 1
C29_Witness ==
    /\ op = "_derive_from_account any branch"
    /\ is_hardened(arg.xkey)
    /\ arg.der_path = <<index_of(0, 2), index_of(0, 1)>>
    /\ out.err = ""
    /\ out.val.depth = arg.xkey.depth + 2
    /\ out.val.index = index_of(0, 1)

\* a key with an index that is not hardened was refused with the warning
C29_Warned ==
    /\ op = "_derive_from_account"
    /\ valid(arg.xkey)
    /\ out.err = "UserWarning: invalid public derivation at account level"

\* the branch 2 was refused to a caller that holds the branches to 0 and 1
C29_BranchRefused ==
    /\ op = "_derive_from_account"
    /\ is_hardened(arg.xkey)
    /\ out.err = "invalid branch: not in (0, 1)"


(***************************************************************************)
(* blocks.py: merkle_root.  A transaction is kept as its txid; the loop of *)
(* the function makes one round at each step.                              *)
(***************************************************************************)
\* the most transactions of a list
MaxTxs == 5

\* b[::-1]
reversed(b) == [i \in 1..Len(b) |-> b[Len(b) + 1 - i]]

\* the txids of two transactions
Txids == {to_bytes(1, 32), spread(9, 32)}

\* the lists of at most MaxTxs transactions
TxLists == UNION {[1..len -> Txids] : len \in 0..MaxTxs}

\* merkle_root: hashes with its last element appended when their number is
\* odd
evened(hashes) ==
    IF Len(hashes) % 2 # 0 THEN Append(hashes, hashes[Len(hashes)]) ELSE hashes

\* merkle_root: the hashes of the pairs of adjacent elements
paired(hashes) ==
    [i \in 1..(Len(hashes) \div 2) |-> hash256(hashes[2 * i - 1] \o hashes[2 * i])]

\* the arguments and the local variable hashes of a call of merkle_root
merkle_args(transactions, hashes) ==
    [transactions |-> transactions, hashes |-> hashes]

\* merkle_root(transactions) is called: hashes is the list of the txids,
\* each reversed
merkle_root_call ==
    /\ op = "none"
    /\ \E transactions \in TxLists :
           arg' = merkle_args(transactions,
                              [i \in 1..Len(transactions) |-> reversed(transactions[i])])
    /\ op' = "merkle_root"
    /\ out' = no_key
    /\ text' = no_text
    /\ UNCHANGED <<xkey, base, trail>>

\* one round of the loop, while len(hashes) != 1
merkle_root_round ==
    /\ op = "merkle_root"
    /\ Len(arg.hashes) # 1
    /\ arg' = [arg EXCEPT !.hashes = paired(evened(arg.hashes))]
    /\ UNCHANGED <<op, out, text, xkey, base, trail>>

\* the loop ends and hashes[0][::-1] is returned
merkle_root_return ==
    /\ op = "merkle_root"
    /\ Len(arg.hashes) = 1
    /\ op' = "merkle_root returned"
    /\ text' = returned_bytes(reversed(arg.hashes[1]))
    /\ UNCHANGED <<arg, out, xkey, base, trail>>

\* the caller goes on after the function has returned
merkle_root_next ==
    /\ op = "merkle_root returned"
    /\ op' = "none"
    /\ arg' = args(BIP32KeyData, BIP32KeyData, <<>>, <<>>)
    /\ out' = no_key
    /\ text' = no_text
    /\ UNCHANGED <<xkey, base, trail>>

MerkleNext ==
    \/ merkle_root_call
    \/ merkle_root_round
    \/ merkle_root_return
    \/ merkle_root_next

\* a round or a return that can be made is made
MerkleSpec ==
    /\ Init
    /\ [][MerkleNext]_vars
    /\ WF_vars(merkle_root_round)
    /\ WF_vars(merkle_root_return)

\* C30: merkle_root returns for every finite list of transactions, the
\* empty list too; for a list of one transaction it returns the txid of
\* that transaction; each round replaces the hashes by the hashes of their
\* adjacent pairs, the last hash being paired with itself when their number
\* is odd, until one hash is left.
C30_MerkleTerminates ==
    /\ (op = "merkle_root") ~> (op = "merkle_root returned")
    /\ [](op = "merkle_root returned" /\ Len(arg.transactions) = 1 =>
              text = returned_bytes(arg.transactions[1]))
    /\ [][op = "merkle_root" /\ op' = "merkle_root" =>
              /\ Len(arg.hashes) # 1
              /\ Len(arg'.hashes) = (Len(arg.hashes) + 1) \div 2
              /\ \A i \in 1..Len(arg'.hashes) :
                     arg'.hashes[i] =
                         hash256(arg.hashes[2 * i - 1]
                                 \o arg.hashes[IF 2 * i <= Len(arg.hashes)
                                               THEN 2 * i ELSE 2 * i - 1])]_vars

\* what holds: merkle_root returns for every list of at least one
\* transaction
C30_NonEmptyTerminates ==
    (op = "merkle_root" /\ arg.transactions # <<>>) ~> (op = "merkle_root returned")

\* what holds of a list of one transaction
C30_SingleTxid ==
    op = "merkle_root returned" /\ Len(arg.transactions) = 1 =>
        text = returned_bytes(arg.transactions[1])

\* merkle_root is in its loop with the empty list, no hash to pair
C30_EmptyList ==
    /\ op = "merkle_root"
    /\ arg.transactions = <<>>
    /\ arg.hashes = <<>>
    /\ paired(evened(arg.hashes)) = arg.hashes

=============================================================================
